---------------------------- MODULE Spec2Model ----------------------------
(***************************************************************************)
(* Donor intelligence: the donor-name resolver (donor_profile_matcher.py)  *)
(* and the tiered web-search relevance filter (web_scraper.py).            *)
(*                                                                         *)
(* Text is kept in the state as TLA+ strings; every text operation works   *)
(* on the sequence of the string's characters (Chars) and is written out   *)
(* character by character, as the regular expression or str method of the  *)
(* source does it.                                                         *)
(*                                                                         *)
(* The specifications share the variables: RegistrySpec is one call of     *)
(* _registry_lookup, Spec (FairSpec with fairness) one session of          *)
(* search_donor_articles, QuerySpec the queries of such a session,         *)
(* LookupSpec one call of lookup_donor_profile_text, ScoreSpec one call of *)
(* _score, FunctionSpec one invocation of process_pending_requests         *)
(* (function_app.py), OverlapSpec invocations of it that overlap,          *)
(* IngestSpec a sequence of invocations of ingest_csv_to_donorprofile      *)
(* (donor_profile_ingestor.py) and ProfileSpec such a sequence followed by *)
(* a lookup on the container it filled.  The variables of the programs a   *)
(* specification does not run stay idle.                                   *)
(***************************************************************************)
EXTENDS Integers, Sequences, FiniteSets, TLC

VARIABLES
    \* ---- _registry_lookup (web_scraper.py) ----
    rl_pc,        \* "start" | "done"
    rl_input,     \* the name passed in, with where it was derived from
    rl_result,    \* the (canonical, synonyms, domains) returned
    \* ---- search_donor_articles (web_scraper.py) ----
    pc,           \* "resolve" | "tier" | "hits" | "done" | "raised"
    donor_name,   \* argument
    max_results,  \* argument
    flags,        \* the module's environment knobs
    identity,     \* canonical, synonyms, reg_domains of _registry_lookup
    off_topic,    \* off_topic = _off_topic_for(canonical, synonyms)
    qi,           \* tier being run, 1..4 (5: loop exhausted)
    yielded,      \* hits the provider has yielded in the current tier
    results,      \* the accumulator
    seen,         \* normalized URLs accepted so far
    queried,      \* history: tiers for which ddgs.text was called, in order
    raised,       \* history: tiers whose ddgs.text call raised
    contrib,      \* history: tiers in which a result was accepted
    last,         \* history: the hit of the latest loop iteration, its fate, the body fetched
    \* ---- lookup_donor_profile_text (donor_profile_matcher.py) ----
    lk_pc,        \* "start" | "tokens" | "fallback" | "score" | "done"
    lk_conf,      \* DONOR_PROFILE_* knobs
    lk_store,     \* the DonorProfile container: a sequence of documents
    lk_name,      \* donor_name argument
    lk_ti,        \* index of the next token to query
    lk_cands,     \* cands
    lk_seen_ids,  \* seen_ids
    lk_log,       \* history: one entry per store query issued
    lk_ret,       \* what the call returned: kind, text, meta, index of the best candidate
    \* ---- _score (donor_profile_matcher.py) ----
    sc_pc,        \* "start" | "done"
    sc_a,         \* query_name
    sc_b,         \* candidate_name
    sc_score,     \* the score returned, a fraction <<numerator, denominator>>
    \* ---- search_donor_articles: the queries it plans and sends ----
    qp_pc,        \* "plan" | "tier" | "done"
    qp_args,      \* donor_name, region, theme, max_results
    qp_pinning,   \* DOMAIN_PINNING
    qp_identity,  \* canonical, synonyms, reg_domains of _registry_lookup
    qp_off_topic, \* off_topic
    qp_site_q,    \* site_q
    qp_queries,   \* queries = [q1, q2, q3, q4]
    qp_qi,        \* tier being run
    qp_kept,      \* len(results)
    qp_sent,      \* history: the queries passed to ddgs.text, in order
    \* ---- process_pending_requests (function_app.py) ----
    fa_pc,        \* "query" | "mark" | "work" | "complete" | "except" | "done"
    fa_store,     \* the Requests container: request id -> stored document
    fa_pending,   \* pending_requests: the ids of the documents the query returned
    fa_i,         \* index in pending_requests of the request being processed
    fa_request,   \* the dict `request` of the current iteration
    fa_crew,      \* history: the ids for which run_donor_intel_crew returned
    \* ---- ingest_csv_to_donorprofile (donor_profile_ingestor.py) ----
    ig_pc,        \* "ready" | "marker" | "rows" | "write_marker"
    ig_conf,      \* DONOR_PROFILE_ENABLE, _READ_ONCE, _FORCE
    ig_csv,       \* the CSV file: whether it exists and its number of data rows
    ig_store,     \* the DonorProfile container: marker present, number of row documents
    ig_idx,       \* idx of the row loop
    ig_written,   \* written
    ig_cur,       \* history of the running invocation: marker stored at its start, upserts
    ig_hist,      \* history: one record per finished invocation
    \* ---- process_pending_requests: invocations that overlap (function_app.py) ----
    ov_pc,        \* per invocation: "query" | "mark" | "work" | "complete" | "except" | "done"
    ov_store,     \* the Requests container, shared: request id -> stored document
    ov_pending,   \* per invocation: pending_requests
    ov_i,         \* per invocation: index in pending_requests of the current request
    ov_request,   \* per invocation: the dict `request` of the current iteration
    ov_crew,      \* history: per request id, how often run_donor_intel_crew returned
    ov_written    \* history: per request id, how often a crew result was stored

rl_vars == <<rl_pc, rl_input, rl_result>>
sd_vars == <<pc, donor_name, max_results, flags, identity, off_topic, qi, yielded,
             results, seen, queried, raised, contrib, last>>
lk_vars == <<lk_pc, lk_conf, lk_store, lk_name, lk_ti, lk_cands,
             lk_seen_ids, lk_log, lk_ret>>
sc_vars == <<sc_pc, sc_a, sc_b, sc_score>>
qp_vars == <<qp_pc, qp_args, qp_pinning, qp_identity, qp_off_topic, qp_site_q,
             qp_queries, qp_qi, qp_kept, qp_sent>>
fa_vars == <<fa_pc, fa_store, fa_pending, fa_i, fa_request, fa_crew>>
ig_vars == <<ig_pc, ig_conf, ig_csv, ig_store, ig_idx, ig_written, ig_cur, ig_hist>>
ov_vars == <<ov_pc, ov_store, ov_pending, ov_i, ov_request, ov_crew, ov_written>>
ex_vars == <<sc_vars, qp_vars, fa_vars, ig_vars, ov_vars>>
vars == <<rl_vars, sd_vars, lk_vars, ex_vars>>

-----------------------------------------------------------------------------
(* Characters and strings                                                  *)

Chars(s) == [i \in 1..Len(s) |-> SubSeq(s, i, i)]

RECURSIVE Str(_)
Str(cs) == IF cs = <<>> THEN "" ELSE Head(cs) \o Str(Tail(cs))

UpperLetters == Chars("ABCDEFGHIJKLMNOPQRSTUVWXYZ")
LowerLetters == Chars("abcdefghijklmnopqrstuvwxyz")
Digits == {"0", "1", "2", "3", "4", "5", "6", "7", "8", "9"}
LowerSet == {LowerLetters[i] : i \in 1..Len(LowerLetters)}
UpperSet == {UpperLetters[i] : i \in 1..Len(UpperLetters)}
\* the non-ASCII letters that occur in the modelled texts
OtherLower == {"ü"}
OtherUpper == {"Ü"}

\* str.lower() and str.upper() of one character (f @@ <<>> is f, stored as a table)
LowerMap ==
    [c \in UpperSet \cup OtherUpper |->
        IF c = "Ü" THEN "ü"
        ELSE LowerLetters[CHOOSE i \in 1..Len(UpperLetters) : UpperLetters[i] = c]] @@ <<>>
UpperMap ==
    [c \in LowerSet \cup OtherLower |->
        IF c = "ü" THEN "Ü"
        ELSE UpperLetters[CHOOSE i \in 1..Len(LowerLetters) : LowerLetters[i] = c]] @@ <<>>
LowerChar(c) == IF c \in DOMAIN LowerMap THEN LowerMap[c] ELSE c
UpperChar(c) == IF c \in DOMAIN UpperMap THEN UpperMap[c] ELSE c

Lower(cs) == [i \in 1..Len(cs) |-> LowerChar(cs[i])]
Upper(cs) == [i \in 1..Len(cs) |-> UpperChar(cs[i])]

\* [a-z0-9]
IsLowerAlnum(c) == c \in LowerSet \cup Digits
\* \s
IsSpace(c) == c \in {" ", "\t", "\n", "\r"}
\* \w (Unicode-aware in Python 3: letters of any script, digits, underscore)
IsWord(c) == c \in LowerSet \cup UpperSet \cup Digits \cup OtherLower \cup OtherUpper \cup {"_"}
\* \d
IsDigit(c) == c \in Digits

\* str.strip()
RECURSIVE LStrip(_)
LStrip(cs) == IF cs # <<>> /\ IsSpace(Head(cs)) THEN LStrip(Tail(cs)) ELSE cs
RECURSIVE RStrip(_)
RStrip(cs) ==
    IF cs # <<>> /\ IsSpace(cs[Len(cs)]) THEN RStrip(SubSeq(cs, 1, Len(cs) - 1)) ELSE cs
Strip(cs) == RStrip(LStrip(cs))

\* needle occurs in text at position i
MatchAt(text, needle, i) ==
    /\ i >= 1
    /\ i + Len(needle) - 1 <= Len(text)
    /\ \A k \in 1..Len(needle) : text[i + k - 1] = needle[k]

\* Python's `needle in text`
IsSubstring(needle, text) ==
    \E i \in 1..(Len(text) - Len(needle) + 1) : MatchAt(text, needle, i)

\* str.endswith
EndsWith(text, suffix) == MatchAt(text, suffix, Len(text) - Len(suffix) + 1)

\* str.startswith
StartsWith(text, prefix) == MatchAt(text, prefix, 1)

\* " ".join(parts)
RECURSIVE Join(_, _)
Join(sep, parts) ==
    IF parts = <<>> THEN <<>>
    ELSE IF Len(parts) = 1 THEN parts[1]
    ELSE parts[1] \o sep \o Join(sep, Tail(parts))

\* re.sub(r"[^a-z0-9]+", " ", s): every maximal run of characters outside
\* a-z0-9 becomes one space
RECURSIVE CollapseNonAlnum(_)
CollapseNonAlnum(cs) ==
    IF cs = <<>> THEN <<>>
    ELSE IF IsLowerAlnum(Head(cs)) THEN <<Head(cs)>> \o CollapseNonAlnum(Tail(cs))
    ELSE LET rest == CollapseNonAlnum(Tail(cs))
         IN  IF Len(cs) > 1 /\ ~IsLowerAlnum(cs[2]) THEN rest ELSE <<" ">> \o rest


\* all orders in which a finite set can be iterated
RECURSIVE Orders(_)
Orders(S) ==
    IF S = {} THEN {<<>>}
    ELSE UNION {{<<x>> \o o : o \in Orders(S \ {x})} : x \in S}

SeqToSet(q) == {q[i] : i \in 1..Len(q)}

-----------------------------------------------------------------------------
(* web_scraper.py: registry and identity resolution                        *)

DONOR_REGISTRY == <<
    [canonical |-> "Swedish International Development Cooperation Agency (Sida)",
     synonyms |-> <<"Sida", "Swedish International Development Cooperation Agency",
                    "Government of Sweden">>,
     domains |-> <<"sida.se", "government.se", "swedenabroad.se">>],
    [canonical |-> "United States Agency for International Development (USAID)",
     synonyms |-> <<"USAID", "United States Agency for International Development">>,
     domains |-> <<"usaid.gov">>],
    [canonical |-> "Foreign, Commonwealth & Development Office (FCDO)",
     synonyms |-> <<"FCDO", "UK aid", "UK Foreign, Commonwealth & Development Office">>,
     domains |-> <<"gov.uk">>],
    [canonical |-> "Deutsche Gesellschaft für Internationale Zusammenarbeit (GIZ)",
     synonyms |-> <<"GIZ", "Deutsche Gesellschaft fuer Internationale Zusammenarbeit">>,
     domains |-> <<"giz.de">>],
    [canonical |-> "United Nations Development Programme (UNDP)",
     synonyms |-> <<"UNDP", "United Nations Development Programme">>,
     domains |-> <<"undp.org">>],
    [canonical |-> "United Nations Children's Fund (UNICEF)",
     synonyms |-> <<"UNICEF">>,
     domains |-> <<"unicef.org">>],
    [canonical |-> "World Bank",
     synonyms |-> <<"World Bank", "IBRD", "IDA">>,
     domains |-> <<"worldbank.org">> ] >>

OFF_TOPIC_BASE == <<
    "Bill & Melinda Gates Foundation",
    "Gates Foundation",
    "Ford Foundation",
    "Open Society Foundations",
    "Open Society Foundation",
    "OSF" >>

SCRAPER_STOPWORDS == {
    "and", "of", "for", "the", "a", "an", "&",
    "agency", "foundation", "fund", "bank", "ministry", "department",
    "international", "cooperation", "development", "affairs", "programme", "program",
    "office", "directorate", "general", "state", "government", "governments" }

\* number of digits (whitespace characters) at the end of cs
RECURSIVE TrailingDigits(_)
TrailingDigits(cs) ==
    IF cs # <<>> /\ IsDigit(cs[Len(cs)]) THEN 1 + TrailingDigits(SubSeq(cs, 1, Len(cs) - 1)) ELSE 0
RECURSIVE TrailingSpaces(_)
TrailingSpaces(cs) ==
    IF cs # <<>> /\ IsSpace(cs[Len(cs)]) THEN 1 + TrailingSpaces(SubSeq(cs, 1, Len(cs) - 1)) ELSE 0

_strip_trailing_digits_Keep(name) == Strip(name)

\* re.sub(r"\s+\d+$", "", (name or "").strip())
_strip_trailing_digits(name) ==
    LET s == Strip(name)
        d == TrailingDigits(s)
        w == TrailingSpaces(SubSeq(s, 1, Len(s) - d))
    IN  IF d >= 1 /\ w >= 1 THEN SubSeq(s, 1, Len(s) - d - w) ELSE s

\* re.match(r"^(.*)\(([^)]+)\)\s*$", name.strip()): the greedy (.*) stops at
\* the last "(" that is followed by a non-empty run without ")" up to the
\* closing ")" that ends the name
_split_paren(name) ==
    LET s == Strip(name)
        n == Len(s)
        opens == {i \in 1..(n - 2) :
                    /\ s[i] = "("
                    /\ \A k \in (i + 1)..(n - 1) : s[k] # ")"}
    IN  IF n >= 3 /\ s[n] = ")" /\ opens # {}
        THEN LET i == CHOOSE j \in opens : \A k \in opens : k <= j
             IN  <<Strip(SubSeq(s, 1, i - 1)), Strip(SubSeq(s, i + 1, n - 1))>>
        ELSE <<name, <<>> >>

IsSpaceOrHyphen(c) == IsSpace(c) \/ c = "-"

\* re.split(r"[\s\-]+", s), empty pieces dropped (cur: the piece being read)
RECURSIVE SplitSpaceHyphen(_, _)
SplitSpaceHyphen(cs, cur) ==
    IF cs = <<>> THEN (IF cur = <<>> THEN <<>> ELSE <<cur>>)
    ELSE IF IsSpaceOrHyphen(Head(cs))
         THEN (IF cur = <<>> THEN <<>> ELSE <<cur>>) \o SplitSpaceHyphen(Tail(cs), <<>>)
         ELSE SplitSpaceHyphen(Tail(cs), Append(cur, Head(cs)))

\* re.sub(r"[^a-z0-9]+", "", w.lower())
AlnumOnly(cs) == SelectSeq(Lower(cs), IsLowerAlnum)

_make_acronym(name) ==
    LET blanked == [i \in 1..Len(name) |->
                      IF IsWord(name[i]) \/ IsSpaceOrHyphen(name[i]) THEN name[i] ELSE " "]
        tokens == SplitSpaceHyphen(blanked, <<>>)
        keep(w) == Str(AlnumOnly(w)) \notin SCRAPER_STOPWORDS
        kept == SelectSeq(tokens, keep)
        ac == Upper([i \in 1..Len(kept) |-> kept[i][1]])
    IN  IF Len(ac) >= 3 THEN ac ELSE <<>>

RegistryKey_NoLower(name) == Strip(CollapseNonAlnum(name))

\* re.sub(r"[^a-z0-9]+", " ", n.lower()).strip(): the key of the reverse map
RegistryKey(name) == Strip(CollapseNonAlnum(Lower(name)))

\* all_names = {canonical} | set(meta.get("synonyms", []))
AllNames(entry) == {entry.canonical} \cup SeqToSet(entry.synonyms)

\* the reverse map rev: key -> index of the canonical entry; a later registry
\* entry overwrites an earlier one
rev ==
    LET keysOf(i) == {Str(RegistryKey(Chars(n))) : n \in AllNames(DONOR_REGISTRY[i])}
        keys == UNION {keysOf(i) : i \in 1..Len(DONOR_REGISTRY)}
    IN  [key \in keys |->
            CHOOSE i \in 1..Len(DONOR_REGISTRY) :
                /\ key \in keysOf(i)
                /\ \A k \in 1..Len(DONOR_REGISTRY) : key \in keysOf(k) => k <= i]

\* registry hit: canon, list({canon, *synonyms}), domains
HitIdentity(i) ==
    [canonical |-> DONOR_REGISTRY[i].canonical,
     synonyms |-> AllNames(DONOR_REGISTRY[i]),
     domains |-> DONOR_REGISTRY[i].domains]

\* unknown donor: auto synonyms
MissSynonyms_NoClean(clean, base, par) ==
    LET ac == IF par # <<>> THEN par
              ELSE _make_acronym(IF base # <<>> THEN base ELSE clean)
    IN  (IF base # <<>> /\ base # clean THEN {Str(base)} ELSE {})
        \cup (IF par # <<>> THEN {Str(par)} ELSE {})
        \cup (IF ac # <<>> THEN {Str(ac)} ELSE {})

MissSynonyms(clean, base, par) ==
    LET ac == IF par # <<>> THEN par
              ELSE _make_acronym(IF base # <<>> THEN base ELSE clean)
    IN  {Str(clean)}
        \cup (IF base # <<>> THEN {Str(base)} ELSE {})
        \cup (IF par # <<>> THEN {Str(par)} ELSE {})
        \cup (IF ac # <<>> THEN {Str(ac)} ELSE {})

\* the first candidate, in iteration order, whose key is in rev (0: none)
RECURSIVE FirstHit(_)
FirstHit(order) ==
    IF order = <<>> THEN 0
    ELSE LET key == Str(RegistryKey(order[1]))
         IN  IF key \in DOMAIN rev THEN rev[key] ELSE FirstHit(Tail(order))

\* _registry_lookup(name): the set {clean, base, par} is iterated in an order
\* the interpreter chooses (string hashing), so the results are a set: one
\* per order
_registry_lookup(name) ==
    LET clean == _strip_trailing_digits(Chars(name))
        bp == _split_paren(clean)
        base == bp[1]
        par == bp[2]
    IN  { LET hit == FirstHit(order)
          IN  IF hit # 0 THEN HitIdentity(hit)
              ELSE [canonical |-> Str(clean),
                    synonyms |-> MissSynonyms(clean, base, par),
                    domains |-> <<>>]
          : order \in Orders({clean, base, par}) }


-----------------------------------------------------------------------------
(* web_scraper.py: relevance filters                                       *)

_off_topic_for_CaseSensitive(canonical, synonyms) ==
    LET synset == synonyms \cup {canonical}
        keep(d) == d \notin synset
    IN  SelectSeq(OFF_TOPIC_BASE, keep)

\* [d for d in OFF_TOPIC_BASE if d.lower() not in synset]
_off_topic_for(canonical, synonyms) ==
    LET synset == {Str(Lower(Chars(x))) : x \in synonyms \cup {canonical}}
        keep(d) == Str(Lower(Chars(d))) \notin synset
    IN  SelectSeq(OFF_TOPIC_BASE, keep)

_contains_any_text_CaseSensitive(text, needles) ==
    /\ text # ""
    /\ needles # {}
    /\ \E n \in needles : IsSubstring(Chars(n), Chars(text))

\* any(n.lower() in text.lower() for n in needles); needles: a set of strings
_contains_any_text(text, needles) ==
    /\ text # ""
    /\ needles # {}
    /\ LET s == Lower(Chars(text))
       IN  \E n \in needles : IsSubstring(Lower(Chars(n)), s)

\* regex \b at position i of t: between t[i-1] and t[i], one is a word
\* character and the other is not (outside the text: not)
WordBoundary(t, i) ==
    LET before == i > 1 /\ IsWord(t[i - 1])
        after == i <= Len(t) /\ IsWord(t[i])
    IN  before # after

\* re.search(r"\b" + re.escape(n.lower()) + r"\b", text.lower()) for some
\* non-empty needle n
_contains_any_word(text, needles) ==
    /\ text # ""
    /\ needles # {}
    /\ LET t == Lower(Chars(text))
       IN  \E n \in needles :
             /\ n # ""
             /\ LET w == Lower(Chars(n))
                IN  \E i \in 1..(Len(t) - Len(w) + 1) :
                      /\ MatchAt(t, w, i)
                      /\ WordBoundary(t, i)
                      /\ WordBoundary(t, i + Len(w))

\* index of the first character of cs that is in the set stop (0: none)
RECURSIVE FirstOf(_, _, _)
FirstOf(cs, stop, i) ==
    IF i > Len(cs) THEN 0
    ELSE IF cs[i] \in stop THEN i
    ELSE FirstOf(cs, stop, i + 1)

SchemeChars == LowerSet \cup UpperSet \cup Digits \cup {"+", "-", "."}

\* urlparse(url).netloc.lower(): after an optional scheme, the text between
\* "//" and the next "/", "?" or "#"
_domain_of(url) ==
    LET cs == Chars(url)
        colon == FirstOf(cs, {":"}, 1)
        hasScheme == /\ colon > 1
                     /\ cs[1] \in LowerSet \cup UpperSet
                     /\ \A k \in 1..(colon - 1) : cs[k] \in SchemeChars
        rest == IF hasScheme THEN SubSeq(cs, colon + 1, Len(cs)) ELSE cs
    IN  IF StartsWith(rest, <<"/", "/">>)
        THEN LET stop == FirstOf(rest, {"/", "?", "#"}, 3)
                 upto == IF stop = 0 THEN Len(rest) ELSE stop - 1
             IN  Str(Lower(SubSeq(rest, 3, upto)))
        ELSE ""

NormUrl_KeepFragment(url) == url

\* nurl = url.split("#")[0]
NormUrl(url) ==
    LET cs == Chars(url)
        hash == FirstOf(cs, {"#"}, 1)
    IN  IF hash = 0 THEN url ELSE Str(SubSeq(cs, 1, hash - 1))

\* any(dom.endswith(d) for d in reg_domains) if reg_domains else False
IsPinned(url, reg_domains) ==
    \E k \in 1..Len(reg_domains) :
        EndsWith(Chars(_domain_of(url)), Chars(reg_domains[k]))

\* title = (r.get("title") or "").strip()
HitTitle(r) == Str(Strip(Chars(r.title)))
\* snippet = (r.get("body") or r.get("snippet") or "").strip()
HitSnippet(r) == Str(Strip(Chars(r.snippet)))
\* pre_blob = f"{title} {snippet} {url}"
PreBlob(r) == HitTitle(r) \o " " \o HitSnippet(r) \o " " \o r.url

-----------------------------------------------------------------------------
(* Identity resolution on its own: one call of _registry_lookup            *)

\* a letter or a digit: what a spelling variant keeps
IsLetterOrDigit(c) == IsWord(c) /\ c # "_"

\* name with every run of punctuation and white space replaced by sep
RECURSIVE ReplaceRuns(_, _)
ReplaceRuns(cs, sep) ==
    IF cs = <<>> THEN <<>>
    ELSE IF IsLetterOrDigit(Head(cs)) THEN <<Head(cs)>> \o ReplaceRuns(Tail(cs), sep)
    ELSE LET rest == ReplaceRuns(Tail(cs), sep)
         IN  IF Len(cs) > 1 /\ ~IsLetterOrDigit(cs[2]) THEN rest ELSE sep \o rest

CaseModes == {"asis", "upper", "lower"}
Separators == {"asis", "-", ", ", "  ", " (", "_"}
DigitSuffixes == {"", " 09", "\t7"}

Recase(cs, mode) ==
    IF mode = "upper" THEN Upper(cs) ELSE IF mode = "lower" THEN Lower(cs) ELSE cs

Respell(cs, sep) == IF sep = "asis" THEN cs ELSE ReplaceRuns(cs, Chars(sep))

\* the names of registry entry i, respelt: letter case changed, each run of
\* punctuation/white space replaced by another one, a digit suffix appended
RunVariants(i) ==
    {[name |-> Str(Recase(Respell(Chars(n), sep), mode) \o Chars(suffix)),
      entry |-> i, kind |-> "run"] :
        n \in AllNames(DONOR_REGISTRY[i]), mode \in CaseModes,
        sep \in Separators, suffix \in DigitSuffixes}

\* registry names with punctuation put inside a word
InWordVariants ==
    {[name |-> "U.K. aid", entry |-> 3, kind |-> "inword"],
     [name |-> "U.S.A.I.D.", entry |-> 2, kind |-> "inword"],
     [name |-> "I.B.R.D. 09", entry |-> 7, kind |-> "inword"]}

\* names of no registry entry
OtherNames ==
    {"", "  ", "12", "Some Totally Unknown Org 7", "Test Org", "x (y) 3",
     "Ministry of Foreign Affairs (MFA) 3", "Gates Foundation", "the of and",
     "World Bank 09 7", "UNDP (UNICEF)", "Ford Foundation (FF)",
     "  Test Org 3 "}

RegistryInputs ==
    UNION {RunVariants(i) : i \in 1..Len(DONOR_REGISTRY)}
    \cup InWordVariants
    \cup {[name |-> n, entry |-> 0, kind |-> "other"] : n \in OtherNames}

NoIdentity == [canonical |-> "", synonyms |-> {}, domains |-> <<>>]
NoHit == [hit |-> [title |-> "", snippet |-> "", url |-> ""], fate |-> "none", body |-> ""]

RlIdle == rl_pc = "idle" /\ rl_input = [name |-> "", entry |-> 0, kind |-> "other"]
          /\ rl_result = NoIdentity

SdIdle ==
    /\ pc = "idle" /\ donor_name = "" /\ max_results = 0 /\ flags = <<>>
    /\ identity = NoIdentity /\ off_topic = <<>> /\ qi = 0 /\ yielded = 0 /\ results = <<>>
    /\ seen = {} /\ queried = <<>> /\ raised = {} /\ contrib = {} /\ last = NoHit

LkIdle ==
    /\ lk_pc = "idle" /\ lk_conf = <<>> /\ lk_store = <<>> /\ lk_name = ""
    /\ lk_ti = 0 /\ lk_cands = <<>> /\ lk_seen_ids = {} /\ lk_log = <<>>
    /\ lk_ret = <<>>

ScIdle == sc_pc = "idle" /\ sc_a = "" /\ sc_b = "" /\ sc_score = <<0, 1>>

QpIdle ==
    /\ qp_pc = "idle" /\ qp_args = <<>> /\ qp_pinning = FALSE /\ qp_identity = NoIdentity
    /\ qp_off_topic = <<>> /\ qp_site_q = "" /\ qp_queries = <<>> /\ qp_qi = 0
    /\ qp_kept = 0 /\ qp_sent = <<>>

FaIdle ==
    /\ fa_pc = "idle" /\ fa_store = <<>> /\ fa_pending = <<>> /\ fa_i = 0
    /\ fa_request = <<>> /\ fa_crew = {}

IgIdle ==
    /\ ig_pc = "idle" /\ ig_conf = <<>> /\ ig_csv = <<>> /\ ig_store = <<>> /\ ig_idx = 0
    /\ ig_written = 0 /\ ig_cur = <<>> /\ ig_hist = <<>>

OvIdle ==
    /\ ov_pc = <<>> /\ ov_store = <<>> /\ ov_pending = <<>> /\ ov_i = <<>>
    /\ ov_request = <<>> /\ ov_crew = <<>> /\ ov_written = <<>>

ExIdle == ScIdle /\ QpIdle /\ FaIdle /\ IgIdle /\ OvIdle

RegistryInit ==
    /\ rl_pc = "start"
    /\ rl_input \in RegistryInputs
    /\ rl_result = NoIdentity
    /\ SdIdle
    /\ LkIdle
    /\ ExIdle

RegistryLookup ==
    /\ rl_pc = "start"
    /\ rl_result' \in _registry_lookup(rl_input.name)
    /\ rl_pc' = "done"
    /\ UNCHANGED <<rl_input, sd_vars, lk_vars, ex_vars>>

RegistryNext == RegistryLookup

RegistrySpec == RegistryInit /\ [][RegistryNext]_vars

-----------------------------------------------------------------------------
(* web_scraper.py: one session of search_donor_articles.  The provider is  *)
(* any provider: each ddgs.text call raises or yields some hits, and each  *)
(* page fetch returns some page text or the error string.  Writing the     *)
(* result file (save_to_disk) and the "date" field are left out.           *)

MaxResults == 2        \* largest max_results argument tried
MaxHitsPerTier == 2    \* longest hit list a provider call yields

\* queries = [q1, q2, q3, q4]
NumTiers_Five == 4 + 1
NumTiers == 4

DonorNames == {"USAID 09", "Test Org"}

Hit(title, snippet, url) == [title |-> title, snippet |-> snippet, url |-> url]

\* what the provider may yield
HitUniverse == {
    Hit("USAID strategic plan", "funding priorities", "https://www.usaid.gov/plan#goals"),
    Hit(" Plan ", "", "https://www.usaid.gov/plan#top"),
    Hit("USAID and Gates Foundation grants", "", "https://news.example.org/a"),
    Hit("Test Org annual report", "a USAID partner", "https://news.example.org/b"),
    Hit("Strategy", "USAID", ""),
    Hit("Grants", "", "https://www.usaid.gov/osf-grants"),
    Hit("Aid news", "", "https://notusaid.gov/aid") }

\* text a fetched page may have
PageBodies == {"", "USAID and Test Org strategy", "Ford Foundation grants"}

\* fetch_and_clean_content(url): the page text, or the error string
fetch_and_clean_content(url) ==
    PageBodies \cup {"[Error fetching " \o url \o "]: timed out"}

-----------------------------------------------------------------------------
(* The texts of a session are those of the hits and pages above, and the   *)
(* donors are DonorNames: the text functions are tabulated over them once, *)
(* so that a step looks a value up instead of scanning the text again.     *)
(* (f @@ <<>> is f, stored as a table.)                                    *)

Identities == UNION {_registry_lookup(n) : n \in DonorNames}
SynonymSets == {id.synonyms : id \in Identities}
OffTopicSets == {SeqToSet(_off_topic_for(id.canonical, id.synonyms)) : id \in Identities}
DomainLists == {id.domains : id \in Identities}
Urls == {r.url : r \in HitUniverse}
AllTexts ==
    {PreBlob(r) : r \in HitUniverse} \cup {HitTitle(r) : r \in HitUniverse}
    \cup UNION {fetch_and_clean_content(u) : u \in Urls}

WordMemo ==
    [needles \in SynonymSets, text \in AllTexts |-> _contains_any_word(text, needles)] @@ <<>>
TextMemo ==
    [needles \in OffTopicSets, text \in AllTexts |-> _contains_any_text(text, needles)] @@ <<>>
PinnedMemo ==
    [url \in Urls, reg_domains \in DomainLists |-> IsPinned(url, reg_domains)] @@ <<>>
LookupMemo == [name \in DonorNames |-> _registry_lookup(name)] @@ <<>>
OffTopicMemo == [id \in Identities |-> _off_topic_for(id.canonical, id.synonyms)] @@ <<>>
NormUrlMemo == [url \in Urls |-> NormUrl(url)] @@ <<>>
HitMemo ==
    [r \in HitUniverse |->
        [title |-> HitTitle(r), snippet |-> HitSnippet(r), pre_blob |-> PreBlob(r)]] @@ <<>>

ReachedCount_Off(n) == n > max_results

\* len(results) >= max_results
ReachedCount(n) == n >= max_results

Synonyms == identity.synonyms
OffTopic == SeqToSet(off_topic)

PrefilterKeeps_PinnedAlwaysExempt(r, pinned) ==
    ~pinned => WordMemo[Synonyms, HitMemo[r].pre_blob]

\* the pre-filter keeps the hit: a donor mention in title/snippet/url is
\* required unless the hit is pinned and the pre-filter is off for pinned hits
PrefilterKeeps(r, pinned) ==
    (~pinned \/ ~flags.DISABLE_PREFILTER_FOR_PINNED)
        => WordMemo[Synonyms, HitMemo[r].pre_blob]

\* reject drift donors unless they are the target
DriftRejects(r) == TextMemo[OffTopic, HitMemo[r].pre_blob]

PassesPostfilter_NameRequired(r, body, pinned) ==
    /\ WordMemo[Synonyms, body] \/ WordMemo[Synonyms, HitMemo[r].title]
    /\ pinned => ~TextMemo[OffTopic, body]

\* the hit survives the post-filter (lines 270-278)
PassesPostfilter(r, body, pinned) ==
    IF ~pinned
    THEN WordMemo[Synonyms, body] \/ WordMemo[Synonyms, HitMemo[r].title]
    ELSE ~TextMemo[OffTopic, body]

\* the dict appended to results; snippet and pinned are kept for the record
Cleaned(r, body, pinned) ==
    [title |-> HitMemo[r].title, url |-> r.url, body |-> body,
     canonical |-> identity.canonical, snippet |-> HitMemo[r].snippet, pinned |-> pinned]

SearchInit ==
    /\ pc = "resolve"
    /\ donor_name \in DonorNames
    /\ max_results \in 0..MaxResults
    /\ flags \in [DISABLE_PREFILTER_FOR_PINNED : BOOLEAN,
                 REQUIRE_NAME_IN_BODY_NONPINNED : BOOLEAN]
    /\ identity = NoIdentity
    /\ off_topic = <<>>
    /\ qi = 0 /\ yielded = 0 /\ results = <<>> /\ seen = {}
    /\ queried = <<>> /\ raised = {} /\ contrib = {} /\ last = NoHit
    /\ RlIdle
    /\ LkIdle
    /\ ExIdle

\* canonical, synonyms, reg_domains = _registry_lookup(donor_name or "")
Resolve ==
    /\ pc = "resolve"
    /\ identity' \in LookupMemo[donor_name]
    /\ off_topic' = OffTopicMemo[identity']
    /\ pc' = "tier"
    /\ qi' = 1
    /\ UNCHANGED <<donor_name, max_results, flags, yielded, results, seen,
                   queried, raised, contrib, last, rl_vars, lk_vars, ex_vars>>

\* loop head: if len(results) >= max_results: break
TierBreak ==
    /\ pc = "tier"
    /\ qi <= NumTiers
    /\ ReachedCount(Len(results))
    /\ pc' = "done"
    /\ last' = NoHit
    /\ UNCHANGED <<donor_name, max_results, flags, identity, off_topic, qi, yielded, results,
                   seen, queried, raised, contrib, rl_vars, lk_vars, ex_vars>>

\* hits = ddgs.text(q, ...) returns
TierQuery ==
    /\ pc = "tier"
    /\ qi <= NumTiers
    /\ ~ReachedCount(Len(results))
    /\ queried' = Append(queried, qi)
    /\ yielded' = 0
    /\ pc' = "hits"
    /\ last' = NoHit
    /\ UNCHANGED <<donor_name, max_results, flags, identity, off_topic, qi, results, seen,
                   raised, contrib, rl_vars, lk_vars, ex_vars>>

TierRaise_Abort ==
    /\ pc = "tier"
    /\ qi <= NumTiers
    /\ ~ReachedCount(Len(results))
    /\ queried' = Append(queried, qi)
    /\ raised' = raised \cup {qi}
    /\ pc' = "raised"
    /\ last' = NoHit
    /\ UNCHANGED <<donor_name, max_results, flags, identity, off_topic, qi, yielded, results,
                   seen, contrib, rl_vars, lk_vars, ex_vars>>

\* ddgs.text raises: except Exception: log and continue with the next tier
TierRaise ==
    /\ pc = "tier"
    /\ qi <= NumTiers
    /\ ~ReachedCount(Len(results))
    /\ queried' = Append(queried, qi)
    /\ raised' = raised \cup {qi}
    /\ qi' = qi + 1
    /\ last' = NoHit
    /\ UNCHANGED <<pc, donor_name, max_results, flags, identity, off_topic, yielded, results,
                   seen, contrib, rl_vars, lk_vars, ex_vars>>

\* the for loop over queries is exhausted
LoopEnd ==
    /\ pc = "tier"
    /\ qi > NumTiers
    /\ pc' = "done"
    /\ last' = NoHit
    /\ UNCHANGED <<donor_name, max_results, flags, identity, off_topic, qi, yielded, results,
                   seen, queried, raised, contrib, rl_vars, lk_vars, ex_vars>>

\* one iteration of `for r in hits` (lines 242-292)
HitNext ==
    /\ pc = "hits"
    /\ yielded < MaxHitsPerTier
    /\ \E r \in HitUniverse :
         LET nurl == NormUrlMemo[r.url]
             pinned == PinnedMemo[r.url, identity.domains]
             skip(why, body) == /\ last' = [hit |-> r, fate |-> why, body |-> body]
                                /\ UNCHANGED <<pc, qi, results, seen, contrib>>
         IN  /\ yielded' = yielded + 1
             /\ IF r.url = "" THEN skip("no url", "")
                ELSE IF nurl \in seen THEN skip("seen", "")
                ELSE IF ~PrefilterKeeps(r, pinned) THEN skip("prefilter", "")
                ELSE IF DriftRejects(r) THEN skip("drift", "")
                ELSE \E body \in fetch_and_clean_content(r.url) :
                       IF ~PassesPostfilter(r, body, pinned) THEN skip("postfilter", body)
                       ELSE /\ results' = Append(results, Cleaned(r, body, pinned))
                            /\ seen' = seen \cup {nurl}
                            /\ contrib' = contrib \cup {qi}
                            /\ last' = [hit |-> r, fate |-> "kept", body |-> body]
                            /\ IF ReachedCount(Len(results) + 1)
                               THEN pc' = "tier" /\ qi' = qi + 1
                               ELSE UNCHANGED <<pc, qi>>
    /\ UNCHANGED <<donor_name, max_results, flags, identity, off_topic, queried, raised,
                   rl_vars, lk_vars, ex_vars>>

\* the hit list is exhausted: on to the next tier
HitsEnd ==
    /\ pc = "hits"
    /\ pc' = "tier"
    /\ qi' = qi + 1
    /\ last' = NoHit
    /\ UNCHANGED <<donor_name, max_results, flags, identity, off_topic, yielded, results, seen,
                   queried, raised, contrib, rl_vars, lk_vars, ex_vars>>

Next ==
    \/ Resolve
    \/ TierBreak
    \/ TierQuery
    \/ TierRaise
    \/ LoopEnd
    \/ HitNext
    \/ HitsEnd

Spec == SearchInit /\ [][Next]_vars

\* the interpreter runs the session to its end
FairSpec == Spec /\ WF_vars(Next)

-----------------------------------------------------------------------------
(* Properties of identity resolution (RegistrySpec)                        *)

\* C9: whatever the input name (registry hit or miss, empty, with a digit
\* suffix, with a parenthetical), the canonical name _registry_lookup returns
\* is a member of the synonym list it returns.
C9_CanonicalInSynonyms ==
    rl_pc = "done" => rl_result.canonical \in rl_result.synonyms

\* a registry miss on a name with a parenthetical and a digit suffix
C9_Witness ==
    /\ rl_pc = "done"
    /\ rl_input.name = "Ministry of Foreign Affairs (MFA) 3"
    /\ rl_result.canonical = "Ministry of Foreign Affairs (MFA)"
    /\ rl_result.domains = <<>>
    /\ "MFA" \in rl_result.synonyms

\* what the registry records for entry i
RegistryIdentityOf(i, r) ==
    /\ r.canonical = DONOR_REGISTRY[i].canonical
    /\ r.synonyms = {DONOR_REGISTRY[i].canonical} \cup SeqToSet(DONOR_REGISTRY[i].synonyms)
    /\ r.domains = DONOR_REGISTRY[i].domains

\* C10 as stated: every name of a registry entry, in any letter case and any
\* punctuation variant, with or without a digit suffix, resolves to that
\* entry's canonical name, its full synonym set and its trusted domains.
C10_AnyPunctuationVariant ==
    (rl_pc = "done" /\ rl_input.kind \in {"run", "inword"})
        => RegistryIdentityOf(rl_input.entry, rl_result)

\* C10 as amended: the same for the variants that change the letter case and
\* replace each run of punctuation/white space between or around the words
\* by another such run; "World Bank" gives "World Bank" with worldbank.org.
C10_RunVariantResolves ==
    /\ (rl_pc = "done" /\ rl_input.kind = "run")
            => RegistryIdentityOf(rl_input.entry, rl_result)
    /\ (rl_pc = "done" /\ rl_input.name = "World Bank")
            => /\ rl_result.canonical = "World Bank"
               /\ "worldbank.org" \in SeqToSet(rl_result.domains)

\* a synonym in upper case, respelt with hyphens and followed by a suffix
C10_Witness ==
    /\ rl_pc = "done"
    /\ rl_input.name = "UK-FOREIGN-COMMONWEALTH-DEVELOPMENT-OFFICE 09"
    /\ rl_result.canonical = "Foreign, Commonwealth & Development Office (FCDO)"
    /\ rl_result.domains = <<"gov.uk">>

-----------------------------------------------------------------------------
(* Properties of a search session (Spec, FairSpec)                         *)

\* the part of a URL before its first "#"
RECURSIVE BeforeHash(_)
BeforeHash(cs) ==
    IF cs = <<>> \/ Head(cs) = "#" THEN <<>> ELSE <<Head(cs)>> \o BeforeHash(Tail(cs))

\* name occurs in text, letter case ignored
OccursIgnoringCase(name, text) ==
    \E i \in 1..(Len(text) - Len(name) + 1) :
        \A k \in 1..Len(name) : UpperChar(text[i + k - 1]) = UpperChar(name[k])

\* C2: at every point of a session no two accepted results have the same
\* URL up to the #fragment.
C2_NoTwoResultsShareUrl ==
    \A i, j \in 1..Len(results) :
        i # j => BeforeHash(Chars(results[i].url)) # BeforeHash(Chars(results[j].url))

\* the provider yields .../plan#top after .../plan#goals was accepted: the
\* second one is skipped and the URL is in the results once
C2_Witness ==
    /\ last.fate = "seen"
    /\ last.hit.url = "https://www.usaid.gov/plan#top"
    /\ Cardinality({i \in 1..Len(results) :
            BeforeHash(Chars(results[i].url)) = Chars("https://www.usaid.gov/plan")}) = 1
    /\ \E i \in 1..Len(results) : results[i].url = "https://www.usaid.gov/plan#goals"

\* name occurs in text, letter case ignored, for the names and texts of the
\* modelled sessions (stored as a table)
OccursMemo ==
    [d \in UNION OffTopicSets, text \in AllTexts |->
        OccursIgnoringCase(Chars(d), Chars(text))] @@ <<>>

\* C3: no accepted result has a title+snippet+URL text that contains, letter
\* case ignored, a name of the off-topic list of the queried identity,
\* pinned or not, synonym mentioned or not.
C3_NoDriftInResults ==
    \A i \in 1..Len(results) :
        \A d \in SeqToSet(OffTopicMemo[identity]) :
            ~OccursMemo[d, results[i].title \o " " \o results[i].snippet \o " " \o results[i].url]

\* a hit that names the donor and a drift magnet in its title is rejected
C3_Witness ==
    /\ last.fate = "drift"
    /\ last.hit.title = "USAID and Gates Foundation grants"
    /\ "USAID" \in identity.synonyms
    /\ "Gates Foundation" \in SeqToSet(off_topic)

\* C16: a hit that passed the pre-filter and the off-topic check is accepted
\* if and only if (a) it is not pinned and some synonym occurs as a whole
\* word/phrase in its fetched body or in its title, or (b) it is pinned and no
\* off-topic name occurs in its fetched body; in particular a pinned hit with
\* an error-string body or an empty body is accepted.
C16_PostfilterRule ==
    last.fate \in {"postfilter", "kept"} =>
        LET pinned == IsPinned(last.hit.url, identity.domains)
            title == Str(Strip(Chars(last.hit.title)))
            named == \/ _contains_any_word(last.body, identity.synonyms)
                     \/ _contains_any_word(title, identity.synonyms)
            drift == \E d \in SeqToSet(off_topic) :
                        OccursIgnoringCase(Chars(d), Chars(last.body))
        IN  /\ (last.fate = "kept") <=> ((~pinned /\ named) \/ (pinned /\ ~drift))
            /\ (pinned /\ (last.body = "" \/ StartsWith(Chars(last.body), Chars("[Error fetching"))))
                    => last.fate = "kept"

\* a pinned hit whose title names no synonym and whose fetch failed is kept
C16_Witness ==
    /\ last.fate = "kept"
    /\ last.hit.title = " Plan "
    /\ last.hit.url = "https://www.usaid.gov/plan#top"
    /\ IsPinned(last.hit.url, identity.domains)
    /\ last.body = "[Error fetching https://www.usaid.gov/plan#top]: timed out"
    /\ results[Len(results)].body = last.body

\* C6: a tier whose provider call raises contributes no result, leaves the
\* results accepted so far as they are, and does not end the session: every
\* later tier is still queried unless max_results results were reached, and
\* no exception leaves search_donor_articles.
C6_FailedTierIsSkipped ==
    /\ [](/\ pc # "raised"
          /\ contrib \cap raised = {}
          /\ pc = "done" =>
                \A k \in raised : \A j \in (k + 1)..4 :
                    j \in SeqToSet(queried) \/ Len(results) >= max_results)
    /\ [][raised' # raised => (results' = results /\ seen' = seen /\ pc' = "tier")]_vars

\* tier 2 raised between two tiers that each contributed a result
C6_Witness ==
    /\ pc = "done"
    /\ raised = {2}
    /\ contrib = {1, 3}
    /\ Len(results) = 2

\* C7: the provider is queried in tier order 1, 2, 3, 4; the accumulator
\* never holds more than max_results results; and once it holds max_results
\* no further hit is processed and no further query is issued.
C7_OrderedAndCapped ==
    /\ [](/\ \A i \in 1..Len(queried) : queried[i] = i /\ i <= 4
          /\ Len(results) <= max_results)
    /\ [][Len(results) >= max_results =>
            (queried' = queried /\ yielded' = yielded /\ results' = results)]_vars

\* the second hit of tier 1 completes the count: the list is left at once
C7_Witness ==
    /\ pc = "done"
    /\ max_results = 2
    /\ Len(results) = 2
    /\ queried = <<1>>
    /\ yielded = 2

-----------------------------------------------------------------------------
(* donor_profile_matcher.py: name scoring.  A score is kept as the exact   *)
(* fraction <<numerator, denominator>> of the value the code computes in   *)
(* floating point.                                                         *)

DONOR_PROFILE_TOKEN_LIMIT == 4

MATCHER_STOPWORDS == {
    "and", "of", "for", "the", "a", "an", "&",
    "agency", "foundation", "fund", "bank", "ministry", "department",
    "international", "cooperation", "development", "affairs", "programme", "program",
    "office", "directorate", "general", "state", "government", "governments" }

\* re.sub(r"[^a-z0-9]+", " ", (s or "").lower()).strip()
_norm(s) == Str(Strip(CollapseNonAlnum(Lower(Chars(s)))))

\* re.split(r"\s+", s): the pieces between the runs of whitespace
RECURSIVE SplitWhitespace(_, _)
SplitWhitespace(cs, cur) ==
    IF cs = <<>> THEN <<Str(cur)>>
    ELSE IF IsSpace(Head(cs)) THEN <<Str(cur)>> \o SplitWhitespace(LStrip(cs), <<>>)
    ELSE SplitWhitespace(Tail(cs), Append(cur, Head(cs)))

\* q[:n]
Take(q, n) == SubSeq(q, 1, IF Len(q) < n THEN Len(q) ELSE n)

_tokens(name) ==
    LET words == SelectSeq(SplitWhitespace(Chars(_norm(name)), <<>>), LAMBDA t : t # "")
        toks == SelectSeq(words, LAMBDA t : t \notin MATCHER_STOPWORDS)
    IN  IF Take(toks, DONOR_PROFILE_TOKEN_LIMIT) # <<>>
        THEN Take(toks, DONOR_PROFILE_TOKEN_LIMIT)
        ELSE Take(words, 2)

_jaccard(a, b) ==
    LET sa == SeqToSet(a)
        sb == SeqToSet(b)
    IN  IF sa = {} \/ sb = {} THEN <<0, 1>>
        ELSE <<Cardinality(sa \cap sb), Cardinality(sa \cup sb)>>

\* length of the block a[i..] = b[j..] that stays within a[..ahi], b[..bhi]
RECURSIVE RunLen(_, _, _, _, _, _)
RunLen(a, b, i, j, ahi, bhi) ==
    IF i > ahi \/ j > bhi THEN 0
    ELSE IF a[i] # b[j] THEN 0
    ELSE 1 + RunLen(a, b, i + 1, j + 1, ahi, bhi)

\* SequenceMatcher.find_longest_match: the longest block common to
\* a[alo..ahi] and b[blo..bhi]; of the longest ones the one that starts
\* earliest in a, and of those the one that starts earliest in b
find_longest_match(a, b, alo, ahi, blo, bhi) ==
    LET len == [i \in alo..ahi, j \in blo..bhi |-> RunLen(a, b, i, j, ahi, bhi)]
        size == CHOOSE k \in 0..(ahi - alo + 1) :
                    /\ \A i \in alo..ahi, j \in blo..bhi : len[i, j] <= k
                    /\ k = 0 \/ \E i \in alo..ahi, j \in blo..bhi : len[i, j] = k
        besti == CHOOSE i \in alo..ahi :
                    /\ \E j \in blo..bhi : len[i, j] = size
                    /\ \A i2 \in alo..(i - 1) : \A j \in blo..bhi : len[i2, j] # size
        bestj == CHOOSE j \in blo..bhi :
                    /\ len[besti, j] = size
                    /\ \A j2 \in blo..(j - 1) : len[besti, j2] # size
    IN  IF size = 0 THEN [i |-> alo, j |-> blo, size |-> 0]
        ELSE [i |-> besti, j |-> bestj, size |-> size]

\* SequenceMatcher.get_matching_blocks, summed: the longest block, then the
\* same to its left and to its right
RECURSIVE MatchedChars(_, _, _, _, _, _)
MatchedChars(a, b, alo, ahi, blo, bhi) ==
    IF alo > ahi \/ blo > bhi THEN 0
    ELSE LET m == find_longest_match(a, b, alo, ahi, blo, bhi)
         IN  IF m.size = 0 THEN 0
             ELSE m.size
                  + MatchedChars(a, b, alo, m.i - 1, blo, m.j - 1)
                  + MatchedChars(a, b, m.i + m.size, ahi, m.j + m.size, bhi)

\* difflib.SequenceMatcher(None, _norm(a), _norm(b)).ratio() = 2.0*M/T,
\* and 1.0 when both strings are empty
_ratio(a, b) ==
    LET na == Chars(_norm(a))
        nb == Chars(_norm(b))
    IN  IF Len(na) + Len(nb) = 0 THEN <<1, 1>>
        ELSE <<2 * MatchedChars(na, nb, 1, Len(na), 1, Len(nb)), Len(na) + Len(nb)>>

\* 0.7 * r + 0.3 * j
_score(query_name, candidate_name) ==
    LET r == _ratio(query_name, candidate_name)
        j == _jaccard(_tokens(query_name), _tokens(candidate_name))
    IN  <<7 * r[1] * j[2] + 3 * j[1] * r[2], 10 * r[2] * j[2]>>

\* x < y and x > y on fractions with positive denominators
ScoreLess(x, y) == x[1] * y[2] < y[1] * x[2]
ScoreGreater_OrEqual(x, y) == ~ScoreLess(x, y)

ScoreGreater(x, y) == ScoreLess(y, x)

\* round(x, 3), in thousandths: the nearest thousandth; when the exact
\* value lies halfway between two, the error of the floating-point sum
\* decides, so either neighbour is possible
Round3(x) ==
    LET n == 1000 * x[1]
        q == n \div x[2]
        rem == n % x[2]
    IN  IF 2 * rem > x[2] THEN {q + 1}
        ELSE IF 2 * rem < x[2] THEN {q}
        ELSE {q, q + 1}

-----------------------------------------------------------------------------
(* donor_profile_matcher.py: the profile text.  A document is a Python     *)
(* dict: the sequence of its <<key, value>> pairs in insertion order; the  *)
(* values are strings.                                                     *)

\* Python's None, where a string is expected
None == "<None>"

\* d.get(key)
Get(doc, key) ==
    IF \E i \in 1..Len(doc) : doc[i][1] = key
    THEN doc[CHOOSE i \in 1..Len(doc) : doc[i][1] = key][2]
    ELSE None

\* bool(v)
Truthy(v) == v # None /\ v # ""

\* a or b or ... : the first truthy operand, else the last operand
RECURSIVE OrChain(_)
OrChain(vals) ==
    IF Len(vals) = 1 \/ Truthy(Head(vals)) THEN Head(vals) ELSE OrChain(Tail(vals))

LowerStr(s) == Str(Lower(Chars(s)))

\* _all_keys_ci(doc).get(key.lower()): of the keys equal up to case the last
\* one gives the value
CiGet(doc, key) ==
    LET at == {i \in 1..Len(doc) : LowerStr(doc[i][1]) = LowerStr(key)}
    IN  IF at = {} THEN None
        ELSE doc[CHOOSE i \in at : \A k \in at : k <= i][2]

\* pick(*keys) of _build_profile_text
RECURSIVE pick(_, _)
pick(doc, keys) ==
    IF keys = <<>> THEN ""
    ELSE IF CiGet(doc, Head(keys)) # None THEN CiGet(doc, Head(keys))
    ELSE pick(doc, Tail(keys))

\* first position >= k of cs that holds no whitespace
RECURSIVE SkipSpaces(_, _)
SkipSpaces(cs, k) == IF k <= Len(cs) /\ IsSpace(cs[k]) THEN SkipSpaces(cs, k + 1) ELSE k

\* (?i)<br\s*/?> at position i: the position of its ">", else 0
BrEnd(cs, i) ==
    IF i + 2 <= Len(cs) /\ cs[i] = "<" /\ LowerChar(cs[i + 1]) = "b" /\ LowerChar(cs[i + 2]) = "r"
    THEN LET k == SkipSpaces(cs, i + 3)
             k2 == IF k <= Len(cs) /\ cs[k] = "/" THEN k + 1 ELSE k
         IN  IF k2 <= Len(cs) /\ cs[k2] = ">" THEN k2 ELSE 0
    ELSE 0

\* (?i)</p\s*> at position i: the position of its ">", else 0
PEnd(cs, i) ==
    IF i + 2 <= Len(cs) /\ cs[i] = "<" /\ cs[i + 1] = "/" /\ LowerChar(cs[i + 2]) = "p"
    THEN LET k == SkipSpaces(cs, i + 3)
         IN  IF k <= Len(cs) /\ cs[k] = ">" THEN k ELSE 0
    ELSE 0

\* <[^>]+> at position i: the position of its ">", else 0
TagEnd(cs, i) ==
    IF cs[i] = "<" /\ \E j \in (i + 1)..Len(cs) : cs[j] = ">"
    THEN LET j == CHOOSE j \in (i + 1)..Len(cs) :
                      cs[j] = ">" /\ \A k \in (i + 1)..(j - 1) : cs[k] # ">"
         IN  IF j >= i + 2 THEN j ELSE 0
    ELSE 0

\* \s+\n at position i: the position of its "\n" (the last one of the run
\* of whitespace that starts at i), else 0
SpaceNlEnd(cs, i) ==
    IF IsSpace(cs[i])
    THEN LET e == SkipSpaces(cs, i) - 1
             nls == {k \in (i + 1)..e : cs[k] = "\n"}
         IN  IF nls = {} THEN 0 ELSE CHOOSE k \in nls : \A k2 \in nls : k2 <= k
    ELSE 0

\* \n{3,} at position i: the position of the last "\n" of the run, else 0
RECURSIVE NlRunEnd(_, _)
NlRunEnd(cs, k) == IF k <= Len(cs) /\ cs[k] = "\n" THEN NlRunEnd(cs, k + 1) ELSE k - 1
Nl3End(cs, i) == IF NlRunEnd(cs, i) - i + 1 >= 3 THEN NlRunEnd(cs, i) ELSE 0

\* re.sub(pattern, repl, cs) from position i on, for the five patterns of
\* _strip_html
RECURSIVE Sub(_, _, _)
Sub(what, cs, i) ==
    IF i > Len(cs) THEN <<>>
    ELSE LET e == CASE what = "br" -> BrEnd(cs, i)
                    [] what = "p" -> PEnd(cs, i)
                    [] what = "tag" -> TagEnd(cs, i)
                    [] what = "spacenl" -> SpaceNlEnd(cs, i)
                    [] what = "nl3" -> Nl3End(cs, i)
             repl == CASE what = "tag" -> <<>>
                       [] what = "nl3" -> <<"\n", "\n">>
                       [] OTHER -> <<"\n">>
         IN  IF e > 0 THEN repl \o Sub(what, cs, e + 1)
             ELSE <<cs[i]>> \o Sub(what, cs, i + 1)

\* the substitutions of _strip_html, one after the other
RECURSIVE SubAll(_, _)
SubAll(whats, cs) ==
    IF whats = <<>> THEN cs ELSE SubAll(Tail(whats), Sub(Head(whats), cs, 1))

_strip_html(s) ==
    IF ~Truthy(s) THEN ""
    ELSE Str(Strip(SubAll(<<"br", "p", "tag", "spacenl", "nl3">>, Chars(s))))

_truncate(s, n) ==
    IF Len(s) <= n THEN s
    ELSE SubSeq(s, 1, IF n - 12 > 0 THEN n - 12 ELSE 0) \o "\n[TRUNCATED]"

\* sep.join(parts) on strings
RECURSIVE JoinStr(_, _)
JoinStr(sep, parts) ==
    IF parts = <<>> THEN ""
    ELSE IF Len(parts) = 1 THEN parts[1]
    ELSE parts[1] \o sep \o JoinStr(sep, Tail(parts))

\* used_keys of _build_profile_text: the lower-cased _PRIMARY_KEYS and the
\* bookkeeping keys
USED_KEYS == {
    "donor_entity_name", "donor_name", "entity_name", "country", "parent_entity_if_applicable",
    "type_of_entity", "level_of_entity", "iom_membership_status", "website",
    "thematic_priorities_related_to_iom", "thematic_priorities_narrative",
    "geographical_focus", "geographic_priorities_narrative",
    "donor_outreach_instructions", "proposal_format", "funding_agreement_format",
    "budget_lines_flexibility", "reporting_format", "no_cost_extensions_policy",
    "visibility_logo_guidelines", "calls_for_proposals_cfp_website",
    "start_of_budget_cycle", "end_of_budget_cycle",
    "additional_info_tips_vis_a_vis_fundraising",
    "organization_chart", "templates_logos_and_key_documents",
    "modified", "modified_by", "approval_status", "source",
    "id", "csv_row_index", "created_at", "updated_at", "_rid", "_self", "_etag",
    "_attachments", "_ts" }

\* lines.append(label + value) under `if value:`
LineIf(label, value) == IF value # "" THEN <<label \o value>> ELSE <<>>

\* lines.append(head); lines.append(value) under `if value:`
BlockIf(head, value) == IF value # "" THEN <<head, value>> ELSE <<>>

\* lines.append(head); lines.extend(bits) under `if bits:`
GroupIf(head, bits) == IF bits # <<>> THEN <<head>> \o bits ELSE <<>>

\* other_pairs: the fields outside used_keys, in document order, with
\* _INCLUDE and _EXCLUDE empty (their defaults); no such key has a friendly
\* label, so the label is the key
RECURSIVE other_pairs(_)
other_pairs(doc) ==
    IF doc = <<>> THEN <<>>
    ELSE LET k == Head(doc)[1]
             sv == _strip_html(Head(doc)[2])
         IN  IF LowerStr(k) \in USED_KEYS \/ sv = "" \/ sv = "[]"
             THEN other_pairs(Tail(doc))
             ELSE <<<<k, sv>>>> \o other_pairs(Tail(doc))

\* the one-character ellipsis U+2026, which a TLA+ string cannot hold: "~"
\* stands for it
Ellipsis == "~"

\* "- label: value", the value cut to 580 characters and the ellipsis when
\* longer than 600
OtherLine(pair) ==
    "- " \o pair[1] \o ": "
        \o (IF Len(pair[2]) <= 600 THEN pair[2] ELSE SubSeq(pair[2], 1, 580) \o Ellipsis)

\* profile_text of _build_profile_text, before the cut.  The parts for
\* priorities_list and geos_list (JSON arrays) are left out: the documents
\* of the model have no Thematic_Priorities_Related_To_IOM and no
\* Geographical_Focus field.
profile_text(doc) ==
    LET name == pick(doc, <<"Donor_Entity_Name", "Donor_Name", "Entity_Name", "donor_entity_name">>)
        id_bits ==
            LineIf("Country/Parent: ", pick(doc, <<"Country", "parent_entity_if_applicable">>))
            \o LineIf("Type: ", pick(doc, <<"Type_Of_Entity">>))
            \o LineIf("Level: ", pick(doc, <<"Level_Of_Entity">>))
            \o LineIf("IOM Membership: ", pick(doc, <<"IOM_Membership_Status">>))
        cycle_start == pick(doc, <<"Start_Of_Budget_Cycle">>)
        cycle_end == pick(doc, <<"End_Of_Budget_Cycle">>)
        op_bits ==
            LineIf("Proposal Format: ", pick(doc, <<"Proposal_Format">>))
            \o LineIf("Funding Agreement: ", pick(doc, <<"Funding_Agreement_Format">>))
            \o LineIf("Reporting: ", pick(doc, <<"Reporting_Format">>))
            \o LineIf("Budget Flexibility: ", pick(doc, <<"Budget_Lines_Flexibility">>))
            \o LineIf("No-Cost Extensions: ", pick(doc, <<"No_Cost_Extensions_Policy">>))
            \o (IF cycle_start # "" \/ cycle_end # ""
                THEN <<"Budget Cycle: " \o (IF cycle_start # "" THEN cycle_start ELSE "N/A")
                       \o " → " \o (IF cycle_end # "" THEN cycle_end ELSE "N/A")>>
                ELSE <<>>)
        meta_bits ==
            LineIf("Org Chart: ", pick(doc, <<"Organization_Chart">>))
            \o LineIf("Templates/Docs: ", pick(doc, <<"Templates_Logos_And_Key_Documents">>))
            \o LineIf("Modified: ", pick(doc, <<"Modified">>))
            \o LineIf("Modified By: ", pick(doc, <<"Modified_By">>))
            \o LineIf("Approval: ", pick(doc, <<"Approval_Status">>))
            \o LineIf("Source: ", pick(doc, <<"source">>))
        others == Take(other_pairs(doc), 40)
        lines ==
            LineIf("Donor Name: ", name)
            \o (IF id_bits # <<>> THEN <<JoinStr(" | ", id_bits)>> ELSE <<>>)
            \o LineIf("Website: ", pick(doc, <<"Website">>))
            \o BlockIf("Priorities Narrative:",
                       _strip_html(pick(doc, <<"Thematic_Priorities_Narrative">>)))
            \o BlockIf("Geographic Narrative:",
                       _strip_html(pick(doc, <<"Geographic_Priorities_Narrative">>)))
            \o GroupIf("Processes & Policies:", op_bits)
            \o BlockIf("Visibility/Logo Guidelines:",
                       _strip_html(pick(doc, <<"Visibility_Logo_Guidelines">>)))
            \o LineIf("Calls for Proposals: ", pick(doc, <<"Calls_For_Proposals_Cfp_Website">>))
            \o BlockIf("Outreach Guidance:",
                       _strip_html(pick(doc, <<"Donor_Outreach_Instructions">>)))
            \o BlockIf("Additional Fundraising Info:",
                       _strip_html(pick(doc, <<"Additional_Info_Tips_Vis_A_Vis_Fundraising">>)))
            \o GroupIf("Meta:", meta_bits)
            \o GroupIf("Other Fields:", [i \in 1..Len(others) |-> OtherLine(others[i])])
    IN  Str(Strip(Chars(JoinStr("\n", SelectSeq(lines, LAMBDA ln : ln # "")))))

\* _build_profile_text, with DONOR_PROFILE_MAX_CHARS as an argument
_build_profile_text(doc, max_chars) == _truncate(profile_text(doc), max_chars)

-----------------------------------------------------------------------------
(* donor_profile_matcher.py: one call of lookup_donor_profile_text on a    *)
(* candidate store.  Each store query raises at the call, raises after     *)
(* some of its items were iterated, or completes.                          *)

MaxDocs == 2    \* most documents in the store

DocUniverse == {
    <<<<"id", "d1">>, <<"donor_entity_name", "USAID">>, <<"Country", "USA">>,
      <<"Website", "https://www.usaid.gov">>>>,
    <<<<"id", "d2">>, <<"donor_entity_name", "US Aid Fund">>,
      <<"Notes", " <p>EU <br/>desk</p> ">>>>,
    <<<<"id", "d3">>, <<"Donor_Name", "Usaid">>>>,
    <<<<"id", "">>, <<"donor_entity_name", "USAID">>>>,
    <<<<"id", "d5">>, <<"donor_name", "usaid">>>> }

\* the stores: up to MaxDocs different documents, in any order
Stores ==
    UNION {{st \in [1..n -> DocUniverse] : \A i, j \in 1..n : i # j => st[i] # st[j]} :
           n \in 0..MaxDocs}

QueryNames == {"", "USAID", "US Aid", "The Fund", "--"}

\* DONOR_PROFILE_LOOKUP_ENABLE, DONOR_PROFILE_MIN_SCORE, DONOR_PROFILE_MAX_CHARS
Configs ==
    [enable : BOOLEAN, min_score : {<<0, 1>>, <<65, 100>>, <<1, 1>>}, max_chars : {5, 30, 8000}]

\* WHERE CONTAINS(LOWER(c.donor_entity_name), @tok) OR CONTAINS(LOWER(c.donor_name), @tok)
TokenMatches(doc, tok) ==
    \E k \in {"donor_entity_name", "donor_name"} :
        /\ Get(doc, k) # None
        /\ IsSubstring(Chars(tok), Lower(Chars(Get(doc, k))))

\* d.get("donor_entity_name") or d.get("Donor_Entity_Name") or
\* d.get("Donor_Name") or d.get("Entity_Name")
match_name(d) ==
    OrChain(<<Get(d, "donor_entity_name"), Get(d, "Donor_Entity_Name"),
              Get(d, "Donor_Name"), Get(d, "Entity_Name")>>)

\* ... or ""
cand_name(d) == OrChain(<<match_name(d), "">>)

\* ---- the documents ingest_csv_to_donorprofile writes to the container ----
MaxInvocations == 3
MaxRows == 2

\* row["id"] = str(uuid.uuid4()): the k-th upserted row gets a fresh id
RowId(k) == "guid-" \o ToString(k)

\* a row of a CSV with the one column Donor_Name, value USAID, as upserted
\* (lines 155-181); csv_row_index and the timestamps are left out
RowDoc(k) ==
    <<<<"Donor_Name", "USAID">>, <<"id", RowId(k)>>, <<"donor_entity_name", "USAID">>,
      <<"parent_entity_if_applicable", "">>,
      <<"source", "csv:data/donor_data/donor_profiles.csv">>>>

\* the marker of _write_marker (lines 88-95); ingested_at is left out
MarkerDoc(rows, read_once) ==
    <<<<"id", "_marker:donorprofile_csv">>, <<"donor_entity_name", "__meta__">>,
      <<"rows", ToString(rows)>>, <<"read_once", IF read_once THEN "true" ELSE "false">>>>

IngestedDocs ==
    {RowDoc(k) : k \in 1..(MaxInvocations * MaxRows)}
        \cup {MarkerDoc(n, ro) : n \in 1..MaxRows, ro \in BOOLEAN}

\* the names looked up in an ingested container
ProfileNames == {"", "Meta", "USAID"}

AllDocs == DocUniverse \cup IngestedDocs
LookupNames == QueryNames \cup ProfileNames

CandNames == {cand_name(d) : d \in AllDocs}
TokensMemo == [name \in LookupNames |-> _tokens(name)] @@ <<>>
AllTokens == UNION {SeqToSet(TokensMemo[name]) : name \in LookupNames}
TokenMatchesMemo == [d \in AllDocs, tok \in AllTokens |-> TokenMatches(d, tok)] @@ <<>>
ScoreMemo == [name \in LookupNames, cn \in CandNames |-> _score(name, cn)] @@ <<>>
ProfileMemo ==
    [d \in AllDocs, n \in {c.max_chars : c \in Configs} |-> _build_profile_text(d, n)] @@ <<>>

\* SELECT TOP 50 * FROM c WHERE ... @tok
query_items_token(store, tok) ==
    Take(SelectSeq(store, LAMBDA c : TokenMatchesMemo[c, tok]), 50)

\* SELECT TOP 200 * FROM c
query_items_all(store) == Take(store, 200)

\* for it in items: cid = it.get("id");
\*     if cid and cid not in seen_ids: cands.append(it); seen_ids.add(cid)
RECURSIVE Collect(_, _)
Collect(acc, items) ==
    IF items = <<>> THEN acc
    ELSE LET cid == Get(Head(items), "id")
         IN  Collect(IF Truthy(cid) /\ cid \notin acc.seen_ids
                     THEN [cands |-> Append(acc.cands, Head(items)),
                           seen_ids |-> acc.seen_ids \cup {cid}]
                     ELSE acc,
                     Tail(items))

\* what a store query does: it hands over the first `got` of its items and
\* then completes or raises
Outcomes(items) ==
    {o \in [got : 0..Len(items), failed : BOOLEAN] : o.failed \/ o.got = Len(items)}

\* the loop of lookup_donor_profile_text over cands: best_score starts at
\* -1.0 and a candidate replaces the best only with a greater score
RECURSIVE BestFrom(_, _, _, _)
BestFrom(name, cands, i, best) ==
    IF i > Len(cands) THEN best
    ELSE LET sc == ScoreMemo[name, cand_name(cands[i])]
         IN  BestFrom(name, cands, i + 1,
                      IF ScoreGreater(sc, best.score) THEN [i |-> i, score |-> sc] ELSE best)

BelowThreshold_Off(best_score, min_score) == FALSE

\* best_score < DONOR_PROFILE_MIN_SCORE
BelowThreshold(best_score, min_score) == ScoreLess(best_score, min_score)

NoReturn == [kind |-> "none", text |-> "", meta |-> {}, best |-> 0]
\* return "", {}     (meta is {} or holds the one meta record)
EmptyResult == [kind |-> "return", text |-> "", meta |-> {}, best |-> 0]
Raised == [kind |-> "raise", text |-> "", meta |-> {}, best |-> 0]

LookupInit ==
    /\ lk_pc = "start"
    /\ lk_conf \in Configs
    /\ lk_store \in Stores
    /\ lk_name \in QueryNames
    /\ lk_ti = 0
    /\ lk_cands = <<>>
    /\ lk_seen_ids = {}
    /\ lk_log = <<>>
    /\ lk_ret = NoReturn
    /\ RlIdle
    /\ SdIdle
    /\ ExIdle

\* if not DONOR_PROFILE_LOOKUP_ENABLE or not donor_name: return "", {}
LkDisabled ==
    /\ lk_pc = "start"
    /\ ~lk_conf.enable \/ lk_name = ""
    /\ lk_ret' = EmptyResult
    /\ lk_pc' = "done"
    /\ UNCHANGED <<lk_conf, lk_store, lk_name, lk_ti, lk_cands, lk_seen_ids, lk_log,
                   rl_vars, sd_vars, ex_vars>>

\* _collect_candidates is entered: toks = _tokens(name)
LkStart ==
    /\ lk_pc = "start"
    /\ lk_conf.enable /\ lk_name # ""
    /\ lk_pc' = "tokens"
    /\ lk_ti' = 1
    /\ UNCHANGED <<lk_conf, lk_store, lk_name, lk_cands, lk_seen_ids, lk_log, lk_ret,
                   rl_vars, sd_vars, ex_vars>>

LkTokenQuery_Propagates ==
    /\ lk_pc = "tokens"
    /\ lk_ti <= Len(TokensMemo[lk_name])
    /\ LET tok == TokensMemo[lk_name][lk_ti]
           items == query_items_token(lk_store, tok)
       IN  \E o \in Outcomes(items) :
             LET acc == Collect([cands |-> lk_cands, seen_ids |-> lk_seen_ids],
                                SubSeq(items, 1, o.got))
             IN  /\ lk_cands' = acc.cands
                 /\ lk_seen_ids' = acc.seen_ids
                 /\ lk_log' = Append(lk_log, [query |-> "token", tok |-> tok,
                                              got |-> o.got, failed |-> o.failed])
                 /\ IF o.failed
                    THEN lk_pc' = "done" /\ lk_ret' = Raised /\ lk_ti' = lk_ti
                    ELSE lk_ti' = lk_ti + 1 /\ UNCHANGED <<lk_pc, lk_ret>>
    /\ UNCHANGED <<lk_conf, lk_store, lk_name, rl_vars, sd_vars, ex_vars>>

\* one round of `for tok in toks`: the query and the loop over its items,
\* inside try/except
LkTokenQuery ==
    /\ lk_pc = "tokens"
    /\ lk_ti <= Len(TokensMemo[lk_name])
    /\ LET tok == TokensMemo[lk_name][lk_ti]
           items == query_items_token(lk_store, tok)
       IN  \E o \in Outcomes(items) :
             LET acc == Collect([cands |-> lk_cands, seen_ids |-> lk_seen_ids],
                                SubSeq(items, 1, o.got))
             IN  /\ lk_cands' = acc.cands
                 /\ lk_seen_ids' = acc.seen_ids
                 /\ lk_log' = Append(lk_log, [query |-> "token", tok |-> tok,
                                              got |-> o.got, failed |-> o.failed])
    /\ lk_ti' = lk_ti + 1
    /\ UNCHANGED <<lk_pc, lk_conf, lk_store, lk_name, lk_ret, rl_vars, sd_vars, ex_vars>>

LkTokensEnd_AlwaysFallback ==
    /\ lk_pc = "tokens"
    /\ lk_ti > Len(TokensMemo[lk_name])
    /\ lk_pc' = "fallback"
    /\ UNCHANGED <<lk_conf, lk_store, lk_name, lk_ti, lk_cands, lk_seen_ids, lk_log, lk_ret,
                   rl_vars, sd_vars, ex_vars>>

\* the token loop is over: `if not cands:` chooses the fallback scan
LkTokensEnd ==
    /\ lk_pc = "tokens"
    /\ lk_ti > Len(TokensMemo[lk_name])
    /\ lk_pc' = IF lk_cands = <<>> THEN "fallback" ELSE "score"
    /\ UNCHANGED <<lk_conf, lk_store, lk_name, lk_ti, lk_cands, lk_seen_ids, lk_log, lk_ret,
                   rl_vars, sd_vars, ex_vars>>

\* the fallback scan and the loop over its items, inside try/except
LkFallback ==
    /\ lk_pc = "fallback"
    /\ LET items == query_items_all(lk_store)
       IN  \E o \in Outcomes(items) :
             LET acc == Collect([cands |-> lk_cands, seen_ids |-> lk_seen_ids],
                                SubSeq(items, 1, o.got))
             IN  /\ lk_cands' = acc.cands
                 /\ lk_seen_ids' = acc.seen_ids
                 /\ lk_log' = Append(lk_log, [query |-> "fallback", tok |-> "",
                                              got |-> o.got, failed |-> o.failed])
    /\ lk_pc' = "score"
    /\ UNCHANGED <<lk_conf, lk_store, lk_name, lk_ti, lk_ret, rl_vars, sd_vars, ex_vars>>

\* lookup_donor_profile_text after _collect_candidates returned
LkScore ==
    /\ lk_pc = "score"
    /\ \E best \in {BestFrom(lk_name, lk_cands, 1, [i |-> 0, score |-> <<-1, 1>>])} :
           IF lk_cands = <<>> THEN lk_ret' = EmptyResult
           ELSE IF best.i = 0 \/ lk_cands[best.i] = <<>>
                   \/ BelowThreshold(best.score, lk_conf.min_score)
           THEN lk_ret' = EmptyResult
           ELSE \E ms \in Round3(best.score) :
                  lk_ret' = [kind |-> "return",
                             text |-> ProfileMemo[lk_cands[best.i], lk_conf.max_chars],
                             meta |-> {[match_score |-> ms,
                                        match_id |-> Get(lk_cands[best.i], "id"),
                                        match_name |-> match_name(lk_cands[best.i])]},
                             best |-> best.i]
    /\ lk_pc' = "done"
    /\ UNCHANGED <<lk_conf, lk_store, lk_name, lk_ti, lk_cands, lk_seen_ids, lk_log,
                   rl_vars, sd_vars, ex_vars>>

LookupNext ==
    \/ LkDisabled
    \/ LkStart
    \/ LkTokenQuery
    \/ LkTokensEnd
    \/ LkFallback
    \/ LkScore

LookupSpec == LookupInit /\ [][LookupNext]_vars

-----------------------------------------------------------------------------
(* Properties of a profile lookup (LookupSpec)                             *)

\* the collected candidates whose score is at or above the threshold
AtOrAboveThreshold ==
    {i \in 1..Len(lk_cands) :
        ~ScoreLess(ScoreMemo[lk_name, cand_name(lk_cands[i])], lk_conf.min_score)}

\* C1: with lookup enabled and a non-empty name, the lookup returns ("", {})
\* when the store is empty, when no candidate was collected, and when every
\* candidate scores strictly below DONOR_PROFILE_MIN_SCORE; a returned match
\* carries match_score, match_id and match_name and some candidate scores at
\* or above the threshold.
C1_EmptyUnlessThresholdMet ==
    (lk_pc = "done" /\ lk_conf.enable /\ lk_name # "") =>
        /\ lk_ret.kind = "return"
        /\ lk_store = <<>> => lk_ret = EmptyResult
        /\ lk_cands = <<>> => lk_ret = EmptyResult
        /\ AtOrAboveThreshold = {} => lk_ret = EmptyResult
        /\ lk_ret.meta # {} =>
              /\ AtOrAboveThreshold # {}
              /\ \A mt \in lk_ret.meta :
                    DOMAIN mt = {"match_score", "match_id", "match_name"}

\* "US Aid" against a store whose candidates all stay below 0.65
C1_Witness ==
    /\ lk_pc = "done"
    /\ lk_name = "US Aid"
    /\ lk_conf.min_score = <<65, 100>>
    /\ lk_cands # <<>>
    /\ lk_ret = EmptyResult

\* C4: the text returned by _build_profile_text is never longer than
\* DONOR_PROFILE_MAX_CHARS, and it ends with "[TRUNCATED]" whenever the
\* text before the cut is longer than the cap.
C4_TextWithinCap ==
    (lk_pc = "done" /\ lk_ret.meta # {}) =>
        /\ Len(lk_ret.text) <= lk_conf.max_chars
        /\ Len(profile_text(lk_cands[lk_ret.best])) > lk_conf.max_chars =>
              EndsWith(Chars(lk_ret.text), Chars("[TRUNCATED]"))

\* the tokens of the per-token queries issued so far, in order
TokensQueried ==
    LET q == SelectSeq(lk_log, LAMBDA e : e.query = "token")
    IN  [i \in 1..Len(q) |-> q[i].tok]

\* C5: whatever store queries fail, at the call or while their items are
\* iterated, the lookup raises nothing and returns a (profile_text, meta)
\* pair; every token is queried, also after a failed one; and a candidate
\* once collected stays collected.
C5_StoreFailuresAreSkipped ==
    /\ [](/\ lk_ret.kind # "raise"
          /\ lk_pc = "done" =>
                /\ lk_ret.kind = "return"
                /\ Cardinality(lk_ret.meta) <= 1
                /\ lk_ret.meta = {} => lk_ret.text = ""
          /\ (lk_pc \in {"fallback", "score", "done"} /\ lk_conf.enable /\ lk_name # "") =>
                TokensQueried = _tokens(lk_name))
    /\ [][/\ Len(lk_cands') >= Len(lk_cands)
          /\ SubSeq(lk_cands', 1, Len(lk_cands)) = lk_cands]_vars

\* the query for the first token fails after it handed over a candidate,
\* the second token is queried all the same, and a match is returned
C5_Witness ==
    /\ lk_pc = "done"
    /\ Len(lk_log) = 2
    /\ lk_log[1].query = "token" /\ lk_log[1].failed /\ lk_log[1].got >= 1
    /\ lk_log[2].query = "token" /\ ~lk_log[2].failed
    /\ Len(lk_cands) = 2
    /\ lk_ret.meta # {}

-----------------------------------------------------------------------------
(* Properties of identity resolution, continued (RegistrySpec)             *)

\* cs without its last digit suffix: the digits at the end of cs and the run
\* of white space before them, when cs ends that way
WithoutDigitSuffix(cs) ==
    LET n == Len(cs)
        cuts == {p \in 0..n : \E k \in (p + 1)..(n - 1) :
                    /\ \A i \in (p + 1)..k : IsSpace(cs[i])
                    /\ \A i \in (k + 1)..n : IsDigit(cs[i])}
    IN  IF cuts = {} THEN cs
        ELSE SubSeq(cs, 1, CHOOSE p \in cuts : \A q \in cuts : p <= q)

\* name matches no registry entry: neither the cleaned name nor its base
\* part nor its parenthetical part is a key of the reverse map
MatchesNoEntry(name) ==
    LET clean == _strip_trailing_digits(Chars(name))
        bp == _split_paren(clean)
    IN  \A c \in {clean, bp[1], bp[2]} : Str(RegistryKey(c)) \notin DOMAIN rev

\* C11: for every name that matches no registry entry, the canonical name is
\* the input (surrounding white space aside) with its trailing
\* whitespace-separated digit suffix stripped, the synonyms include that
\* cleaned name, and the trusted-domain list is empty.
C11_MissGivesCleanedName ==
    (rl_pc = "done" /\ MatchesNoEntry(rl_input.name))
        => /\ rl_result.canonical = Str(WithoutDigitSuffix(Strip(Chars(rl_input.name))))
           /\ rl_result.canonical \in rl_result.synonyms
           /\ rl_result.domains = <<>>

\* the example of the claim
C11_Witness ==
    /\ rl_pc = "done"
    /\ rl_input.name = "Some Totally Unknown Org 7"
    /\ MatchesNoEntry(rl_input.name)
    /\ rl_result.canonical = "Some Totally Unknown Org"
    /\ "Some Totally Unknown Org" \in rl_result.synonyms
    /\ rl_result.domains = <<>>

\* C12: identity resolution is deterministic: whatever order the cleaned
\* name, the base part and the parenthetical part are examined in, every
\* invocation on the same name returns the canonical name, the synonym set
\* and the trusted domains that this invocation returned.
C12_LookupIsDeterministic ==
    rl_pc = "done" =>
        \A other \in _registry_lookup(rl_input.name) :
            /\ other.canonical = rl_result.canonical
            /\ other.synonyms = rl_result.synonyms
            /\ other.domains = rl_result.domains

-----------------------------------------------------------------------------
(* donor_profile_matcher.py: one call of _score on two names               *)

ScoreNames ==
    {"", "!!!", "&", "the of", "The Fund", "USAID", "US Aid", "U.S. Aid",
     "Aid US", "World Bank", "tide", "diet"}

ScoreInit ==
    /\ sc_pc = "start"
    /\ sc_a \in ScoreNames
    /\ sc_b \in ScoreNames
    /\ sc_score = <<0, 1>>
    /\ RlIdle
    /\ SdIdle
    /\ LkIdle
    /\ QpIdle
    /\ FaIdle
    /\ IgIdle
    /\ OvIdle

ScoreCall ==
    /\ sc_pc = "start"
    /\ sc_score' = _score(sc_a, sc_b)
    /\ sc_pc' = "done"
    /\ UNCHANGED <<sc_a, sc_b, rl_vars, sd_vars, lk_vars, ov_vars, qp_vars, fa_vars, ig_vars>>

ScoreNext == ScoreCall

ScoreSpec == ScoreInit /\ [][ScoreNext]_vars

\* equality of two fractions with positive denominators
SameFraction(x, y) == x[1] * y[2] = y[1] * x[2]

\* C13: for every string s, the empty string and the strings made only of
\* punctuation or only of stopwords included, _score(s, s) is 1.0: the
\* character ratio and the token Jaccard are both 1 on identical inputs.
C13_SelfScoreIsOne ==
    (sc_pc = "done" /\ sc_a = sc_b)
        => /\ SameFraction(sc_score, <<1, 1>>)
           /\ SameFraction(_ratio(sc_a, sc_b), <<1, 1>>)
           /\ SameFraction(_jaccard(_tokens(sc_a), _tokens(sc_b)), <<1, 1>>)

\* C14: for all strings a and b, _score(a, b) equals _score(b, a): the
\* character ratio and the Jaccard similarity of the token sets are
\* symmetric in their arguments.
C14_ScoreIsSymmetric ==
    sc_pc = "done"
        => /\ SameFraction(sc_score, _score(sc_b, sc_a))
           /\ SameFraction(_ratio(sc_a, sc_b), _ratio(sc_b, sc_a))
           /\ SameFraction(_jaccard(_tokens(sc_a), _tokens(sc_b)),
                           _jaccard(_tokens(sc_b), _tokens(sc_a)))

-----------------------------------------------------------------------------
(* web_scraper.py: the queries of one session of search_donor_articles.    *)
(* The identity, the off-topic list, the site clause and the four queries  *)
(* are computed as the function computes them; of the hits of a tier only  *)
(* the number accepted is kept, any number up to max_results.              *)

_site_filters_AlwaysPinned(domains, pinning) ==
    IF domains = <<>> THEN ""
    ELSE " (" \o JoinStr(" OR ", [i \in 1..Len(domains) |-> "site:" \o domains[i]]) \o ")"

\* _site_filters(domains), DOMAIN_PINNING passed in
_site_filters(domains, pinning) ==
    IF ~(pinning /\ domains # <<>>) THEN ""
    ELSE " (" \o JoinStr(" OR ", [i \in 1..Len(domains) |-> "site:" \o domains[i]]) \o ")"

\* f"\"{s}\""
Quoted(s) == "\"" \o s \o "\""

kw_core ==
    "(\"strategic plan\" OR \"funding priorities\" OR \"annual report\" OR strategy OR priorities OR grants)"

pdf_kw == "(filetype:pdf OR \"annual report\" OR strategy)"

\* base = [f"\"{canonical}\""], then the theme and the region when truthy
QueryBase(canonical, theme, region) ==
    <<Quoted(canonical)>>
    \o (IF Truthy(theme) THEN <<Quoted(theme)>> ELSE <<>>)
    \o (IF Truthy(region) THEN <<Quoted(region)>> ELSE <<>>)

\* syn_or = "(" + " OR ".join([f"\"{s}\"" for s in synonyms if s]) + ")"
syn_or(synonyms) ==
    LET named == SelectSeq(synonyms, LAMBDA s : s # "")
    IN  "(" \o JoinStr(" OR ", [i \in 1..Len(named) |-> Quoted(named[i])]) \o ")"

BuildQueries_PinTier3(canonical, synonyms, theme, region, site_q) ==
    LET base == QueryBase(canonical, theme, region)
    IN  << JoinStr(" ", base \o <<kw_core>>) \o site_q,
           JoinStr(" ", base \o <<kw_core>>),
           JoinStr(" ", <<syn_or(synonyms), kw_core>>) \o site_q,
           JoinStr(" ", <<syn_or(synonyms), pdf_kw>>) \o site_q >>

\* queries = [q1, q2, q3, q4]; synonyms is the list _registry_lookup returned
BuildQueries(canonical, synonyms, theme, region, site_q) ==
    LET base == QueryBase(canonical, theme, region)
    IN  << JoinStr(" ", base \o <<kw_core>>) \o site_q,
           JoinStr(" ", base \o <<kw_core>>),
           JoinStr(" ", <<syn_or(synonyms), kw_core>>),
           JoinStr(" ", <<syn_or(synonyms), pdf_kw>>) \o site_q >>

QueryDonorNames ==
    {None, "USAID 09", "Sida", "Test Org", "gates foundation", "UNDP (UNICEF)",
     "Ministry of Foreign Affairs (MFA) 3", "Bill & Melinda Gates Foundation"}
QueryRegions == {None, "", "East Africa"}
QueryThemes == {None, "health"}

QueryInit ==
    /\ qp_pc = "plan"
    /\ qp_args \in [donor_name : QueryDonorNames, region : QueryRegions,
                    theme : QueryThemes, max_results : 0..MaxResults]
    /\ qp_pinning \in BOOLEAN
    /\ qp_identity = NoIdentity
    /\ qp_off_topic = <<>>
    /\ qp_site_q = ""
    /\ qp_queries = <<>>
    /\ qp_qi = 0 /\ qp_kept = 0 /\ qp_sent = <<>>
    /\ RlIdle
    /\ SdIdle
    /\ LkIdle
    /\ ScIdle
    /\ FaIdle
    /\ IgIdle
    /\ OvIdle

\* _registry_lookup(donor_name or ""), _off_topic_for, _site_filters and the
\* four queries; list(syns) lists the synonym set in an order the
\* interpreter chooses
QpPlan ==
    /\ qp_pc = "plan"
    /\ \E id \in _registry_lookup(IF Truthy(qp_args.donor_name) THEN qp_args.donor_name ELSE "") :
        /\ qp_identity' = id
        /\ qp_off_topic' = _off_topic_for(id.canonical, id.synonyms)
        /\ qp_site_q' = _site_filters(id.domains, qp_pinning)
        /\ \E synonyms \in Orders(id.synonyms) :
              qp_queries' = BuildQueries(id.canonical, synonyms, qp_args.theme,
                                         qp_args.region, qp_site_q')
    /\ qp_pc' = "tier"
    /\ qp_qi' = 1
    /\ UNCHANGED <<qp_args, qp_pinning, qp_kept, qp_sent, rl_vars, sd_vars, lk_vars, ov_vars, sc_vars, fa_vars, ig_vars>>

\* loop head: if len(results) >= max_results: break
QpTierBreak ==
    /\ qp_pc = "tier"
    /\ qp_qi <= Len(qp_queries)
    /\ qp_kept >= qp_args.max_results
    /\ qp_pc' = "done"
    /\ UNCHANGED <<qp_args, qp_pinning, qp_identity, qp_off_topic, qp_site_q, qp_queries,
                   qp_qi, qp_kept, qp_sent, rl_vars, sd_vars, lk_vars, ov_vars, sc_vars, fa_vars, ig_vars>>

\* ddgs.text(q, ...) for the tier's query: it raises, or its hits are gone
\* through and some of them are accepted
QpTier ==
    /\ qp_pc = "tier"
    /\ qp_qi <= Len(qp_queries)
    /\ qp_kept < qp_args.max_results
    /\ qp_sent' = Append(qp_sent, qp_queries[qp_qi])
    /\ qp_kept' \in qp_kept..qp_args.max_results
    /\ qp_qi' = qp_qi + 1
    /\ UNCHANGED <<qp_pc, qp_args, qp_pinning, qp_identity, qp_off_topic, qp_site_q,
                   qp_queries, rl_vars, sd_vars, lk_vars, ov_vars, sc_vars, fa_vars, ig_vars>>

\* the list of queries is exhausted
QpLoopEnd ==
    /\ qp_pc = "tier"
    /\ qp_qi > Len(qp_queries)
    /\ qp_pc' = "done"
    /\ UNCHANGED <<qp_args, qp_pinning, qp_identity, qp_off_topic, qp_site_q, qp_queries,
                   qp_qi, qp_kept, qp_sent, rl_vars, sd_vars, lk_vars, ov_vars, sc_vars, fa_vars, ig_vars>>

QueryNext == QpPlan \/ QpTierBreak \/ QpTier \/ QpLoopEnd

QuerySpec == QueryInit /\ [][QueryNext]_vars

-----------------------------------------------------------------------------
(* Properties of the queries (QuerySpec)                                   *)

Planned == qp_pc \in {"tier", "done"}

\* needle occurs in text (both strings)
Occurs(needle, text) == IsSubstring(Chars(needle), Chars(text))

\* the identity is the one of a registry entry
IsRegistryHit(id) == \E i \in 1..Len(DONOR_REGISTRY) : id.canonical = DONOR_REGISTRY[i].canonical

\* C15: exactly four queries are built and they are sent in the order tier 1
\* to tier 4; for a registry-hit donor with region and theme provided and
\* domain pinning enabled, the tier-1 query contains the double-quoted
\* canonical name, theme and region and a site restriction over the trusted
\* domains; the tier-3 query never contains a site restriction.
C15_FourQueriesInOrder ==
    Planned =>
        /\ Len(qp_queries) = 4
        /\ Len(qp_sent) <= 4
        /\ \A i \in 1..Len(qp_sent) : qp_sent[i] = qp_queries[i]
        /\ (/\ IsRegistryHit(qp_identity)
            /\ Truthy(qp_args.region) /\ Truthy(qp_args.theme)
            /\ qp_pinning)
                => /\ Occurs("\"" \o qp_identity.canonical \o "\"", qp_queries[1])
                   /\ Occurs("\"" \o qp_args.theme \o "\"", qp_queries[1])
                   /\ Occurs("\"" \o qp_args.region \o "\"", qp_queries[1])
                   /\ qp_identity.domains # <<>>
                   /\ \A k \in 1..Len(qp_identity.domains) :
                          Occurs("site:" \o qp_identity.domains[k], qp_queries[1])
        /\ ~Occurs("site:", qp_queries[3])

\* all four tiers sent for USAID with theme and region, pinning enabled
C15_Witness ==
    /\ qp_pc = "done"
    /\ qp_pinning
    /\ qp_args.donor_name = "USAID 09"
    /\ Len(qp_sent) = 4
    /\ qp_sent[1] = "\"United States Agency for International Development (USAID)\" \"health\" \"East Africa\" (\"strategic plan\" OR \"funding priorities\" OR \"annual report\" OR strategy OR priorities OR grants) (site:usaid.gov)"
    /\ Occurs("\"USAID\"", qp_sent[3])

\* C17: for every resolved identity the off-topic list holds exactly the
\* names of the drift-magnet list that are not equal, letter case ignored,
\* to the canonical name or to a synonym.
C17_OffTopicExactly ==
    Planned =>
        \A i \in 1..Len(OFF_TOPIC_BASE) :
            (OFF_TOPIC_BASE[i] \in SeqToSet(qp_off_topic))
                <=> ~\E n \in qp_identity.synonyms \cup {qp_identity.canonical} :
                        Upper(Chars(n)) = Upper(Chars(OFF_TOPIC_BASE[i]))

\* an unknown donor whose name is a drift magnet in another letter case
C17_Witness ==
    /\ Planned
    /\ qp_identity.canonical = "gates foundation"
    /\ "Gates Foundation" \notin SeqToSet(qp_off_topic)
    /\ "Bill & Melinda Gates Foundation" \in SeqToSet(qp_off_topic)

\* C20: tier 1 is tier 2 followed by the site clause; the site clause (in
\* tiers 1 and 4) is non-empty exactly when domain pinning is enabled and
\* the identity has a trusted domain; otherwise tier 1 and tier 2 are the
\* same string.
C20_Tier1IsTier2PlusSite ==
    Planned =>
        /\ StartsWith(Chars(qp_queries[1]), Chars(qp_queries[2]))
        /\ LET clause == SubSeq(qp_queries[1], Len(qp_queries[2]) + 1, Len(qp_queries[1]))
           IN  /\ (clause # "") <=> (qp_pinning /\ qp_identity.domains # <<>>)
               /\ clause # "" => Occurs("site:", clause)
               /\ EndsWith(Chars(qp_queries[4]), Chars(clause))
               /\ Occurs("site:", qp_queries[4]) <=> (clause # "")
               /\ clause = "" => qp_queries[1] = qp_queries[2]

\* Sida with pinning enabled: three trusted domains in the clause
C20_Witness ==
    /\ qp_pc = "done"
    /\ qp_pinning
    /\ qp_identity.domains = <<"sida.se", "government.se", "swedenabroad.se">>
    /\ Len(qp_sent) = 4
    /\ qp_sent[1] = qp_sent[2] \o " (site:sida.se OR site:government.se OR site:swedenabroad.se)"

-----------------------------------------------------------------------------
(* function_app.py: one invocation of process_pending_requests.  A stored  *)
(* request is kept as its status and whether it has a crew_result and an   *)
(* error_message.  Every call on the Requests container either succeeds or *)
(* raises; the work between the two status writes (document extraction,    *)
(* profile lookup, the crew) either completes or raises.                   *)

MaxRequests == 2
RequestIds == 1..MaxRequests

StoredRequest(status) ==
    [status |-> status, crew_result |-> status = "complete",
     error_message |-> status = "failed"]

RequestStores ==
    [RequestIds -> {StoredRequest(st) : st \in {"pending", "processing", "complete", "failed"}}]

\* the documents `SELECT * FROM c WHERE c.status = 'pending'` returns
RECURSIVE PendingFrom(_, _)
PendingFrom(store, id) ==
    IF id > MaxRequests THEN <<>>
    ELSE (IF store[id].status = "pending" THEN <<[id |-> id, doc |-> store[id]]>> ELSE <<>>)
         \o PendingFrom(store, id + 1)

FunctionInit ==
    /\ fa_pc = "query"
    /\ fa_store \in RequestStores
    /\ fa_pending = <<>>
    /\ fa_i = 0
    /\ fa_request = <<>>
    /\ fa_crew = {}
    /\ RlIdle
    /\ SdIdle
    /\ LkIdle
    /\ ScIdle
    /\ QpIdle
    /\ IgIdle
    /\ OvIdle

\* pending_requests = list(container_client.query_items(...))
FaQuery ==
    /\ fa_pc = "query"
    /\ fa_pending' = PendingFrom(fa_store, 1)
    /\ fa_i' = 1
    /\ fa_pc' = "mark"
    /\ UNCHANGED <<fa_store, fa_request, fa_crew, rl_vars, sd_vars, lk_vars, ov_vars, sc_vars, qp_vars, ig_vars>>

\* the query raises: logged, return
FaQueryFails ==
    /\ fa_pc = "query"
    /\ fa_pc' = "done"
    /\ UNCHANGED <<fa_store, fa_pending, fa_i, fa_request, fa_crew,
                   rl_vars, sd_vars, lk_vars, ov_vars, sc_vars, qp_vars, ig_vars>>

\* request['status'] = 'processing'; container_client.replace_item(...)
FaMark ==
    /\ fa_pc = "mark"
    /\ fa_i <= Len(fa_pending)
    /\ fa_request' = [fa_pending[fa_i].doc EXCEPT !.status = "processing"]
    /\ fa_store' = [fa_store EXCEPT ![fa_pending[fa_i].id] = fa_request']
    /\ fa_pc' = "work"
    /\ UNCHANGED <<fa_pending, fa_i, fa_crew, rl_vars, sd_vars, lk_vars, ov_vars, sc_vars, qp_vars, ig_vars>>

\* the same, replace_item raising: on to the except clause
FaMarkFails ==
    /\ fa_pc = "mark"
    /\ fa_i <= Len(fa_pending)
    /\ fa_request' = [fa_pending[fa_i].doc EXCEPT !.status = "processing"]
    /\ fa_pc' = "except"
    /\ UNCHANGED <<fa_store, fa_pending, fa_i, fa_crew, rl_vars, sd_vars, lk_vars, ov_vars, sc_vars, qp_vars, ig_vars>>

\* steps 2 to 4: documents, profile lookup, run_donor_intel_crew
FaWork ==
    /\ fa_pc = "work"
    /\ fa_crew' = fa_crew \cup {fa_pending[fa_i].id}
    /\ fa_pc' = "complete"
    /\ UNCHANGED <<fa_store, fa_pending, fa_i, fa_request, rl_vars, sd_vars, lk_vars, ov_vars,
                   sc_vars, qp_vars, ig_vars>>

\* one of steps 2 to 4 raises
FaWorkFails ==
    /\ fa_pc = "work"
    /\ fa_pc' = "except"
    /\ UNCHANGED <<fa_store, fa_pending, fa_i, fa_request, fa_crew, rl_vars, sd_vars, lk_vars, ov_vars,
                   sc_vars, qp_vars, ig_vars>>

\* step 5: status 'complete', crew_result, replace_item; then the next request
FaComplete ==
    /\ fa_pc = "complete"
    /\ fa_request' = [fa_request EXCEPT !.status = "complete", !.crew_result = TRUE]
    /\ fa_store' = [fa_store EXCEPT ![fa_pending[fa_i].id] = fa_request']
    /\ fa_i' = fa_i + 1
    /\ fa_pc' = "mark"
    /\ UNCHANGED <<fa_pending, fa_crew, rl_vars, sd_vars, lk_vars, ov_vars, sc_vars, qp_vars, ig_vars>>

\* step 5 with replace_item (or ensure_jsonable) raising
FaCompleteFails ==
    /\ fa_pc = "complete"
    /\ \E stored \in BOOLEAN :
         fa_request' = [fa_request EXCEPT !.status = "complete", !.crew_result = stored]
    /\ fa_pc' = "except"
    /\ UNCHANGED <<fa_store, fa_pending, fa_i, fa_crew, rl_vars, sd_vars, lk_vars, ov_vars,
                   sc_vars, qp_vars, ig_vars>>

\* except: status 'failed', error_message, replace_item; then the next request
FaFailed ==
    /\ fa_pc = "except"
    /\ fa_request' = [fa_request EXCEPT !.status = "failed", !.error_message = TRUE]
    /\ fa_store' = [fa_store EXCEPT ![fa_pending[fa_i].id] = fa_request']
    /\ fa_i' = fa_i + 1
    /\ fa_pc' = "mark"
    /\ UNCHANGED <<fa_pending, fa_crew, rl_vars, sd_vars, lk_vars, ov_vars, sc_vars, qp_vars, ig_vars>>

\* the same, replace_item raising: logged; then the next request
FaFailedFails ==
    /\ fa_pc = "except"
    /\ fa_request' = [fa_request EXCEPT !.status = "failed", !.error_message = TRUE]
    /\ fa_i' = fa_i + 1
    /\ fa_pc' = "mark"
    /\ UNCHANGED <<fa_store, fa_pending, fa_crew, rl_vars, sd_vars, lk_vars, ov_vars, sc_vars, qp_vars, ig_vars>>

\* the loop over pending_requests is exhausted
FaFinish ==
    /\ fa_pc = "mark"
    /\ fa_i > Len(fa_pending)
    /\ fa_pc' = "done"
    /\ UNCHANGED <<fa_store, fa_pending, fa_i, fa_request, fa_crew,
                   rl_vars, sd_vars, lk_vars, ov_vars, sc_vars, qp_vars, ig_vars>>

FunctionNext ==
    \/ FaQuery \/ FaQueryFails
    \/ FaMark \/ FaMarkFails
    \/ FaWork \/ FaWorkFails
    \/ FaComplete \/ FaCompleteFails
    \/ FaFailed \/ FaFailedFails
    \/ FaFinish

FunctionSpec == FunctionInit /\ [][FunctionNext]_vars

-----------------------------------------------------------------------------
(* Properties of request processing (FunctionSpec)                         *)

PickedUp == {fa_pending[k].id : k \in 1..Len(fa_pending)}

\* C18: when the invocation finishes, every request it picked up is stored
\* as 'complete' with a crew_result or as 'failed' with an error_message,
\* none as 'pending' or 'processing', whichever step or store write failed;
\* and a failure on one request does not keep the later ones from being
\* processed.
C18_PickedUpEndsCompleteOrFailed ==
    fa_pc = "done" =>
        \A id \in PickedUp :
            \/ fa_store[id].status = "complete" /\ fa_store[id].crew_result
            \/ fa_store[id].status = "failed" /\ fa_store[id].error_message

-----------------------------------------------------------------------------
(* donor_profile_ingestor.py: a sequence of invocations of                 *)
(* ingest_csv_to_donorprofile on one container.  Every call on the         *)
(* container either succeeds or raises.  Each row is upserted under a new  *)
(* GUID, so the container is kept as its number of row documents and       *)
(* whether the marker document is present.                                 *)

IngestInit ==
    /\ ig_pc = "ready"
    /\ ig_conf \in [ENABLE : BOOLEAN, READ_ONCE : BOOLEAN, FORCE : BOOLEAN]
    /\ ig_csv \in [exists : {TRUE}, rows : 0..MaxRows] \cup {[exists |-> FALSE, rows |-> 0]}
    /\ ig_store = [marker |-> FALSE, rows |-> 0]
    /\ ig_idx = 0
    /\ ig_written = 0
    /\ ig_cur = <<>>
    /\ ig_hist = <<>>
    /\ RlIdle
    /\ SdIdle
    /\ LkIdle
    /\ ScIdle
    /\ QpIdle
    /\ FaIdle
    /\ OvIdle

\* the invocation ends: it returns count, or an exception leaves it
IgReturn(cur, count, exc) ==
    /\ ig_hist' = Append(ig_hist, [marker_at_start |-> cur.marker_at_start,
                                   upserts |-> cur.upserts,
                                   ret |-> count, raised |-> exc])
    /\ ig_pc' = "ready"
    /\ ig_cur' = <<>>
    /\ ig_idx' = 0
    /\ ig_written' = 0

IgStarting == [marker_at_start |-> ig_store.marker, upserts |-> 0]

\* if not DONOR_PROFILE_ENABLE: return 0
IgDisabled ==
    /\ ig_pc = "ready"
    /\ Len(ig_hist) < MaxInvocations
    /\ ~ig_conf.ENABLE
    /\ IgReturn(IgStarting, 0, FALSE)
    /\ UNCHANGED <<ig_conf, ig_csv, ig_store, rl_vars, sd_vars, lk_vars, ov_vars, sc_vars, qp_vars, fa_vars>>

\* container = _open_container(cosmos_client)
IgOpen ==
    /\ ig_pc = "ready"
    /\ Len(ig_hist) < MaxInvocations
    /\ ig_conf.ENABLE
    /\ ig_cur' = IgStarting
    /\ ig_pc' = "marker"
    /\ UNCHANGED <<ig_conf, ig_csv, ig_store, ig_idx, ig_written, ig_hist,
                   rl_vars, sd_vars, lk_vars, ov_vars, sc_vars, qp_vars, fa_vars>>

\* _open_container raises (get_database_client, create_container_if_not_exists)
IgOpenFails ==
    /\ ig_pc = "ready"
    /\ Len(ig_hist) < MaxInvocations
    /\ ig_conf.ENABLE
    /\ IgReturn(IgStarting, 0, TRUE)
    /\ UNCHANGED <<ig_conf, ig_csv, ig_store, rl_vars, sd_vars, lk_vars, ov_vars, sc_vars, qp_vars, fa_vars>>

\* lines 140-154, marker being what _get_marker returned: skip on the
\* marker, return 0 without a file or without rows, else enter the row loop
IgAfterMarker(marker) ==
    IF (marker /\ ig_conf.READ_ONCE /\ ~ig_conf.FORCE) \/ ~ig_csv.exists \/ ig_csv.rows = 0
    THEN IgReturn(ig_cur, 0, FALSE)
    ELSE /\ ig_pc' = "rows"
         /\ ig_idx' = 1
         /\ ig_written' = 0
         /\ UNCHANGED <<ig_cur, ig_hist>>

\* marker = _get_marker(container), the query answering
IgGetMarker ==
    /\ ig_pc = "marker"
    /\ IgAfterMarker(ig_store.marker)
    /\ UNCHANGED <<ig_conf, ig_csv, ig_store, rl_vars, sd_vars, lk_vars, ov_vars, sc_vars, qp_vars, fa_vars>>

\* _get_marker with the query raising: except Exception: return None
IgGetMarkerFails ==
    /\ ig_pc = "marker"
    /\ IgAfterMarker(FALSE)
    /\ UNCHANGED <<ig_conf, ig_csv, ig_store, rl_vars, sd_vars, lk_vars, ov_vars, sc_vars, qp_vars, fa_vars>>

IgNextRow == ig_pc' = (IF ig_idx = ig_csv.rows THEN "write_marker" ELSE "rows")

\* container.upsert_item(ensure_jsonable(row)); written += 1
IgUpsert ==
    /\ ig_pc = "rows"
    /\ ig_store' = [ig_store EXCEPT !.rows = @ + 1]
    /\ ig_written' = ig_written + 1
    /\ ig_cur' = [ig_cur EXCEPT !.upserts = @ + 1]
    /\ ig_idx' = ig_idx + 1
    /\ IgNextRow
    /\ UNCHANGED <<ig_conf, ig_csv, ig_hist, rl_vars, sd_vars, lk_vars, ov_vars, sc_vars, qp_vars, fa_vars>>

\* the upsert raises: logged, next row
IgUpsertFails ==
    /\ ig_pc = "rows"
    /\ ig_idx' = ig_idx + 1
    /\ IgNextRow
    /\ UNCHANGED <<ig_conf, ig_csv, ig_store, ig_written, ig_cur, ig_hist,
                   rl_vars, sd_vars, lk_vars, ov_vars, sc_vars, qp_vars, fa_vars>>

\* _write_marker(container, len(base_rows)); return written, abs_path
IgWriteMarker ==
    /\ ig_pc = "write_marker"
    /\ ig_store' = [ig_store EXCEPT !.marker = TRUE]
    /\ IgReturn(ig_cur, ig_written, FALSE)
    /\ UNCHANGED <<ig_conf, ig_csv, rl_vars, sd_vars, lk_vars, ov_vars, sc_vars, qp_vars, fa_vars>>

\* container.upsert_item(marker) raises: the exception leaves the function
IgWriteMarkerFails ==
    /\ ig_pc = "write_marker"
    /\ IgReturn(ig_cur, 0, TRUE)
    /\ UNCHANGED <<ig_conf, ig_csv, ig_store, rl_vars, sd_vars, lk_vars, ov_vars, sc_vars, qp_vars, fa_vars>>

IngestNext ==
    \/ IgDisabled
    \/ IgOpen \/ IgOpenFails
    \/ IgGetMarker \/ IgGetMarkerFails
    \/ IgUpsert \/ IgUpsertFails
    \/ IgWriteMarker \/ IgWriteMarkerFails

IngestSpec == IngestInit /\ [][IngestNext]_vars

-----------------------------------------------------------------------------
(* Properties of the ingestion (IngestSpec)                                *)

\* C19: with DONOR_PROFILE_READ_ONCE enabled and DONOR_PROFILE_FORCE
\* disabled, the rows are upserted by at most one invocation of any
\* sequence: an invocation that starts after the marker was written upserts
\* no row and returns a count of 0.
C19_RowsUpsertedAtMostOnce ==
    (ig_pc # "idle" /\ ig_conf.READ_ONCE /\ ~ig_conf.FORCE) =>
        /\ Cardinality({j \in 1..Len(ig_hist) : ig_hist[j].upserts > 0}) <= 1
        /\ \A j \in 1..Len(ig_hist) :
              ig_hist[j].marker_at_start =>
                  /\ ig_hist[j].upserts = 0
                  /\ ~ig_hist[j].raised => ig_hist[j].ret = 0

-----------------------------------------------------------------------------
(* Properties of a search session, continued (Spec)                        *)

\* title+snippet+URL of the hit of the latest iteration, as the loop builds it
LastBlob ==
    Str(Strip(Chars(last.hit.title))) \o " " \o Str(Strip(Chars(last.hit.snippet)))
        \o " " \o last.hit.url

\* C21: a hit without a URL is always skipped; a hit that is not pinned, or
\* any hit when DISABLE_PREFILTER_FOR_PINNED is off, in whose title+snippet+URL
\* no synonym occurs as a whole word/phrase is discarded before its page is
\* fetched; the pre-filter discards no other hit, so a pinned hit with the
\* flag on is never discarded for want of a synonym.
C21_PrefilterRule ==
    last.fate # "none" =>
        LET pinned == IsPinned(last.hit.url, identity.domains)
            exempt == pinned /\ flags.DISABLE_PREFILTER_FOR_PINNED
            named == _contains_any_word(LastBlob, identity.synonyms)
        IN  /\ last.hit.url = "" <=> last.fate = "no url"
            /\ (last.hit.url # "" /\ ~exempt /\ ~named)
                    => last.fate \in {"seen", "prefilter"} /\ last.body = ""
            /\ last.fate = "prefilter" => ~exempt /\ ~named

\* with the flag off a pinned hit that names no synonym is discarded, after a
\* hit that names one was accepted
C21_Witness ==
    /\ ~flags.DISABLE_PREFILTER_FOR_PINNED
    /\ last.fate = "prefilter"
    /\ last.hit.url = "https://notusaid.gov/aid"
    /\ IsPinned(last.hit.url, identity.domains)
    /\ Len(results) = 1
    /\ results[1].url = "https://www.usaid.gov/plan#goals"


\* the host of the hit of the latest iteration is a registry domain of the
\* identity or a subdomain of one
HostIsTrusted ==
    \E host \in {Chars(_domain_of(last.hit.url))} :
        \E k \in 1..Len(identity.domains) :
            \/ host = Chars(identity.domains[k])
            \/ EndsWith(host, Chars("." \o identity.domains[k]))

\* C28: only a hit whose host is a trusted domain of the identity or a
\* subdomain of one is treated as pinned: a hit that went past the pre-filter
\* although no synonym occurs in its title+snippet+URL (the exemption of a
\* pinned hit) has such a host.
C28_PinnedOnlyTrustedHosts ==
    (last.fate \in {"drift", "postfilter", "kept"}
        /\ ~_contains_any_word(LastBlob, identity.synonyms)) => HostIsTrusted


\* C29: no accepted result, pinned or not, has a fetched body that contains,
\* letter case ignored, a name of the off-topic list of the queried identity.
C29_NoDriftInBodies ==
    \A i \in 1..Len(results) :
        \A d \in SeqToSet(OffTopicMemo[identity]) : ~OccursMemo[d, results[i].body]


\* C25: with REQUIRE_NAME_IN_BODY_NONPINNED (DONORINTEL_REQUIRE_NAME_IN_BODY)
\* disabled, a non-pinned hit that passed the pre-filter and the off-topic
\* check is accepted, whether or not a synonym occurs in its body or title.
C25_BodyMentionIsConfigurable ==
    (/\ ~flags.REQUIRE_NAME_IN_BODY_NONPINNED
     /\ last.fate \in {"postfilter", "kept"}
     /\ ~IsPinned(last.hit.url, identity.domains)) => last.fate = "kept"

-----------------------------------------------------------------------------
(* Properties of a profile lookup, continued (LookupSpec)                  *)

\* C23: _tokens returns at most DONOR_PROFILE_TOKEN_LIMIT tokens, none of
\* them a stopword, so no store query is issued for a stopword token.
C23_NoStopwordTokenQueried ==
    /\ lk_pc \in {"tokens", "fallback", "score"} =>
          /\ Len(_tokens(lk_name)) <= DONOR_PROFILE_TOKEN_LIMIT
          /\ \A k \in 1..Len(_tokens(lk_name)) : _tokens(lk_name)[k] \notin MATCHER_STOPWORDS
    /\ \A k \in 1..Len(lk_log) :
          lk_log[k].query = "token" => lk_log[k].tok \notin MATCHER_STOPWORDS


\* the records with an id that the token queries handed over, by the log
TokenYield ==
    UNION {{c \in SeqToSet(SubSeq(SelectSeq(lk_store, LAMBDA d : TokenMatches(d, lk_log[k].tok)),
                                  1, lk_log[k].got)) : Get(c, "id") \notin {None, ""}} :
           k \in {n \in 1..Len(lk_log) : lk_log[n].query = "token"}}

FallbackIssued == \E k \in 1..Len(lk_log) : lk_log[k].query = "fallback"

\* C22: once _collect_candidates has returned, the fallback scan was issued
\* if and only if the token queries produced no candidate (no tokens, no
\* match, or every token query failed before handing over a record); if they
\* produced one, the candidates are token-matched records only; and no two
\* candidates have the same id.
C22_FallbackIffNoTokenCandidates ==
    (lk_pc \in {"score", "done"} /\ lk_conf.enable /\ lk_name # "") =>
        /\ FallbackIssued <=> TokenYield = {}
        /\ TokenYield # {} => SeqToSet(lk_cands) = TokenYield
        /\ \A i, j \in 1..Len(lk_cands) :
              i # j => Get(lk_cands[i], "id") # Get(lk_cands[j], "id")

\* "US Aid" has the tokens "us" and "aid"; the record "US Aid Fund" is handed
\* over by both token queries and collected once, and no fallback scan is issued
C22_Witness ==
    /\ lk_pc = "score"
    /\ lk_name = "US Aid"
    /\ Len(lk_log) = 2
    /\ \A k \in 1..2 : lk_log[k].query = "token" /\ lk_log[k].got >= 1
    /\ Len(lk_cands) = 1
    /\ Get(lk_cands[1], "id") = "d2"


\* the score of the i-th collected candidate
CandScore(i) == ScoreMemo[lk_name, cand_name(lk_cands[i])]

\* C24: the lookup that returns a profile selected a candidate whose score is
\* the maximum over the collected candidates, the first such candidate in the
\* collected order, and match_id and match_name are that candidate's.
C24_FirstBestIsSelected ==
    (lk_pc = "done" /\ lk_ret.kind = "return" /\ lk_ret.meta # {}) =>
        \E b \in 1..Len(lk_cands) :
            /\ \A i \in 1..Len(lk_cands) : ~ScoreLess(CandScore(b), CandScore(i))
            /\ \A i \in 1..(b - 1) : ScoreLess(CandScore(i), CandScore(b))
            /\ lk_ret.best = b
            /\ \A mt \in lk_ret.meta :
                  /\ mt.match_id = Get(lk_cands[b], "id")
                  /\ mt.match_name = match_name(lk_cands[b])

\* two candidates score the same for "USAID"; the first one, d3, is returned
C24_Witness ==
    /\ lk_pc = "done"
    /\ lk_name = "USAID"
    /\ Len(lk_cands) = 2
    /\ Get(lk_cands[1], "id") = "d3"
    /\ Get(lk_cands[2], "id") = "d1"
    /\ CandScore(1) = CandScore(2)
    /\ \E mt \in lk_ret.meta : mt.match_id = "d3" /\ mt.match_name = "Usaid"

-----------------------------------------------------------------------------
(* The DonorProfile container between the two programs: a sequence of      *)
(* invocations of ingest_csv_to_donorprofile, and one call of              *)
(* lookup_donor_profile_text on the container as they have left it so far. *)

\* the documents of the container: one per upserted row, and the marker
ContainerRows == [k \in 1..ig_store.rows |-> RowDoc(k)]
ContainerMarker ==
    IF ig_store.marker THEN <<MarkerDoc(ig_csv.rows, ig_conf.READ_ONCE)>> ELSE <<>>

\* the order in which a cross-partition query hands the documents over is
\* the store's: the marker has a partition of its own, before or after the rows
ContainerOrders == {ContainerRows \o ContainerMarker, ContainerMarker \o ContainerRows}

\* lookup_donor_profile_text(profile_container, donor_name) is called with
\* the default knobs (lookup enabled, min score 0.65, 8000 characters)
PfLookupCall ==
    /\ ig_pc = "ready"
    /\ lk_pc = "idle"
    /\ lk_pc' = "start"
    /\ lk_conf' = [enable |-> TRUE, min_score |-> <<65, 100>>, max_chars |-> 8000]
    /\ lk_store' \in ContainerOrders
    /\ lk_name' \in ProfileNames
    /\ lk_ti' = 0
    /\ lk_cands' = <<>>
    /\ lk_seen_ids' = {}
    /\ lk_log' = <<>>
    /\ lk_ret' = NoReturn
    /\ UNCHANGED <<rl_vars, sd_vars, ex_vars>>

ProfileNext ==
    \/ IngestNext
    \/ PfLookupCall
    \/ LookupNext

ProfileSpec == IngestInit /\ [][ProfileNext]_vars

\* C30: whatever ingestions came before, a lookup on the container never
\* returns the bookkeeping record: every match_id returned is the id of a
\* record created from a CSV row.
C30_MarkerIsNeverTheMatch ==
    lk_pc = "done" =>
        \A mt \in lk_ret.meta :
            /\ mt.match_id # "_marker:donorprofile_csv"
            /\ mt.match_id \in {RowId(k) : k \in 1..ig_store.rows}

-----------------------------------------------------------------------------
(* Properties of the queries, continued (QuerySpec)                        *)

\* C27: an organisation is never off-topic against itself: no off-topic
\* check rejects a text that consists of the canonical name or of a synonym
\* of the resolved identity, that is, none of them contains, letter case
\* ignored, a name of the off-topic list computed for the identity.
C27_NeverOffTopicAgainstItself ==
    qp_pc # "plan" =>
        \A s \in qp_identity.synonyms \cup {qp_identity.canonical} :
            /\ ~_contains_any_text(s, SeqToSet(qp_off_topic))
            /\ \A k \in 1..Len(qp_off_topic) :
                  ~OccursIgnoringCase(Chars(qp_off_topic[k]), Chars(s))

-----------------------------------------------------------------------------
(* function_app.py: invocations of process_pending_requests that overlap   *)
(* on one Requests container.  Each invocation is the handler modelled     *)
(* above, with its own pending_requests and request; a step of one         *)
(* invocation may come between any two steps of another.                   *)

MaxOverlap == 2    \* invocations
Invocations == 1..MaxOverlap

other_vars == <<rl_vars, sd_vars, lk_vars, sc_vars, qp_vars, fa_vars, ig_vars>>

OverlapInit ==
    /\ ov_pc = [n \in Invocations |-> "query"]
    /\ ov_store \in RequestStores
    /\ ov_pending = [n \in Invocations |-> <<>>]
    /\ ov_i = [n \in Invocations |-> 0]
    /\ ov_request = [n \in Invocations |-> <<>>]
    /\ ov_crew = [id \in RequestIds |-> 0]
    /\ ov_written = [id \in RequestIds |-> 0]
    /\ RlIdle
    /\ SdIdle
    /\ LkIdle
    /\ ScIdle
    /\ QpIdle
    /\ FaIdle
    /\ IgIdle

\* the id of the request invocation n is working on
OvId(n) == ov_pending[n][ov_i[n]].id

\* pending_requests = list(container_client.query_items(...))
OvQuery(n) ==
    /\ ov_pc[n] = "query"
    /\ ov_pending' = [ov_pending EXCEPT ![n] = PendingFrom(ov_store, 1)]
    /\ ov_i' = [ov_i EXCEPT ![n] = 1]
    /\ ov_pc' = [ov_pc EXCEPT ![n] = "mark"]
    /\ UNCHANGED <<ov_store, ov_request, ov_crew, ov_written, other_vars>>

\* the query raises: logged, return
OvQueryFails(n) ==
    /\ ov_pc[n] = "query"
    /\ ov_pc' = [ov_pc EXCEPT ![n] = "done"]
    /\ UNCHANGED <<ov_store, ov_pending, ov_i, ov_request, ov_crew, ov_written, other_vars>>

\* request['status'] = 'processing'; container_client.replace_item(item=request,
\* body=request): the stored document is replaced, whatever it holds by now
OvMark(n) ==
    /\ ov_pc[n] = "mark"
    /\ ov_i[n] <= Len(ov_pending[n])
    /\ ov_request' = [ov_request EXCEPT
                        ![n] = [ov_pending[n][ov_i[n]].doc EXCEPT !.status = "processing"]]
    /\ ov_store' = [ov_store EXCEPT ![OvId(n)] = ov_request'[n]]
    /\ ov_pc' = [ov_pc EXCEPT ![n] = "work"]
    /\ UNCHANGED <<ov_pending, ov_i, ov_crew, ov_written, other_vars>>

\* the same, replace_item raising: on to the except clause
OvMarkFails(n) ==
    /\ ov_pc[n] = "mark"
    /\ ov_i[n] <= Len(ov_pending[n])
    /\ ov_request' = [ov_request EXCEPT
                        ![n] = [ov_pending[n][ov_i[n]].doc EXCEPT !.status = "processing"]]
    /\ ov_pc' = [ov_pc EXCEPT ![n] = "except"]
    /\ UNCHANGED <<ov_store, ov_pending, ov_i, ov_crew, ov_written, other_vars>>

\* steps 2 to 4: documents, profile lookup, run_donor_intel_crew
OvWork(n) ==
    /\ ov_pc[n] = "work"
    /\ ov_crew' = [ov_crew EXCEPT ![OvId(n)] = @ + 1]
    /\ ov_pc' = [ov_pc EXCEPT ![n] = "complete"]
    /\ UNCHANGED <<ov_store, ov_pending, ov_i, ov_request, ov_written, other_vars>>

\* one of steps 2 to 4 raises
OvWorkFails(n) ==
    /\ ov_pc[n] = "work"
    /\ ov_pc' = [ov_pc EXCEPT ![n] = "except"]
    /\ UNCHANGED <<ov_store, ov_pending, ov_i, ov_request, ov_crew, ov_written, other_vars>>

\* step 5: status 'complete', crew_result, replace_item; then the next request
OvComplete(n) ==
    /\ ov_pc[n] = "complete"
    /\ ov_request' = [ov_request EXCEPT ![n] = [@ EXCEPT !.status = "complete",
                                                         !.crew_result = TRUE]]
    /\ ov_store' = [ov_store EXCEPT ![OvId(n)] = ov_request'[n]]
    /\ ov_written' = [ov_written EXCEPT ![OvId(n)] = @ + 1]
    /\ ov_i' = [ov_i EXCEPT ![n] = @ + 1]
    /\ ov_pc' = [ov_pc EXCEPT ![n] = "mark"]
    /\ UNCHANGED <<ov_pending, ov_crew, other_vars>>

\* step 5 with replace_item (or ensure_jsonable) raising
OvCompleteFails(n) ==
    /\ ov_pc[n] = "complete"
    /\ \E stored \in BOOLEAN :
         ov_request' = [ov_request EXCEPT ![n] = [@ EXCEPT !.status = "complete",
                                                           !.crew_result = stored]]
    /\ ov_pc' = [ov_pc EXCEPT ![n] = "except"]
    /\ UNCHANGED <<ov_store, ov_pending, ov_i, ov_crew, ov_written, other_vars>>

\* except: status 'failed', error_message, replace_item; then the next request
OvFailed(n) ==
    /\ ov_pc[n] = "except"
    /\ ov_request' = [ov_request EXCEPT ![n] = [@ EXCEPT !.status = "failed",
                                                         !.error_message = TRUE]]
    /\ ov_store' = [ov_store EXCEPT ![OvId(n)] = ov_request'[n]]
    /\ ov_i' = [ov_i EXCEPT ![n] = @ + 1]
    /\ ov_pc' = [ov_pc EXCEPT ![n] = "mark"]
    /\ UNCHANGED <<ov_pending, ov_crew, ov_written, other_vars>>

\* the same, replace_item raising: logged; then the next request
OvFailedFails(n) ==
    /\ ov_pc[n] = "except"
    /\ ov_request' = [ov_request EXCEPT ![n] = [@ EXCEPT !.status = "failed",
                                                         !.error_message = TRUE]]
    /\ ov_i' = [ov_i EXCEPT ![n] = @ + 1]
    /\ ov_pc' = [ov_pc EXCEPT ![n] = "mark"]
    /\ UNCHANGED <<ov_store, ov_pending, ov_crew, ov_written, other_vars>>

\* the loop over pending_requests is exhausted
OvFinish(n) ==
    /\ ov_pc[n] = "mark"
    /\ ov_i[n] > Len(ov_pending[n])
    /\ ov_pc' = [ov_pc EXCEPT ![n] = "done"]
    /\ UNCHANGED <<ov_store, ov_pending, ov_i, ov_request, ov_crew, ov_written, other_vars>>

OverlapNext ==
    \E n \in Invocations :
        \/ OvQuery(n) \/ OvQueryFails(n)
        \/ OvMark(n) \/ OvMarkFails(n)
        \/ OvWork(n) \/ OvWorkFails(n)
        \/ OvComplete(n) \/ OvCompleteFails(n)
        \/ OvFailed(n) \/ OvFailedFails(n)
        \/ OvFinish(n)

OverlapSpec == OverlapInit /\ [][OverlapNext]_vars

\* C26: however the invocations interleave, the crew is run at most once for
\* each request and its result is written at most once.
C26_CrewRunsAtMostOncePerRequest ==
    \A id \in RequestIds : ov_crew[id] <= 1 /\ ov_written[id] <= 1

=============================================================================
